---------------------------- MODULE Spec2Model ----------------------------
(***************************************************************************)
(* Model of the message-aggregation and response pipeline of the bot:      *)
(*   - the album aggregator (bot/handlers.py: handle_media_album_part,     *)
(*     process_complete_album) with its debounce timer,                    *)
(*   - the daily quota (core/database.py: check_and_update_chat_limit),    *)
(*   - the orchestrator (bot/handlers.py: process_ai_interaction).         *)
(*   - the text utilities (bot/utils.py: split_long_message,               *)
(*     ensure_valid_markdown),                                             *)
(*   - the delivery (bot/handlers.py:                                      *)
(*     send_text_response_possibly_chunked) and the message handlers that  *)
(*     call the orchestrator.                                              *)
(*                                                                         *)
(* The program runs on one asyncio event loop: the statements between two  *)
(* suspension points (an await that really waits: a sleep, a transport     *)
(* send, a download, the provider call) run as one step.  The persistence  *)
(* client is synchronous, so the database functions never suspend.         *)
(*                                                                         *)
(* The album clock counts ticks of 1.25 time units, so that the debounce   *)
(* duration of 2.5 time units is 2 ticks.  Time is kept as the ticks each   *)
(* sleeping task has slept and the ticks since the last message of each    *)
(* group, both counted up to the debounce duration.                        *)
(***************************************************************************)
EXTENDS Integers, Sequences, FiniteSets, TLC

VARIABLES
    \* ---- album aggregator ----
    since,                              \* per group: ticks since its last handled message
    FEATURE_ENABLE_IMAGE_UNDERSTANDING, \* core/config.py:33
    MAX_IMAGES_PER_ALBUM,               \* core/config.py:34
    media_group_cache,                  \* bot/handlers.py:74
    tasks,                              \* the process_complete_album tasks created so far
    arrivals,                           \* the album messages handled so far (history)
    \* ---- daily quota (table user_preferences) ----
    today,                              \* date.today(), as a day number
    DAILY_CHAT_LIMIT_PER_USER,          \* core/config.py:31
    dbAvailable,                        \* supabase_client and FEATURE_ENABLE_DATABASE
    user_preferences,                   \* per user: the quota columns of its row
    lastCheck,                          \* the last check_and_update_chat_limit call (history)
    allowedToday,                       \* per user: calls allowed on the current day (history)
    \* ---- orchestrator ----
    FEATURE_ENABLE_DAILY_CHAT_LIMIT,       \* core/config.py:30
    FEATURE_ENABLE_DATABASE,               \* core/config.py
    FEATURE_ENABLE_CONVERSATION_HISTORY,   \* core/config.py:28
    FEATURE_ENABLE_GEMINI,                 \* core/config.py:24
    GEMINI_API_KEY,                        \* core/config.py:20 (set or not)
    FEATURE_ENABLE_AUDIO_UNDERSTANDING,    \* core/config.py:36
    FEATURE_ENABLE_DOCUMENT_UNDERSTANDING, \* core/config.py
    translations,                          \* core/localization.py: per key, the kind of its text
    conversation_history,                  \* table conversation_history, oldest row first
    req,                                   \* the process_ai_interaction run and what it did
    \* ---- text utilities (bot/utils.py) ----
    text_arg,                              \* the text given, a sequence of characters
    max_length_arg,                        \* the limit given to split_long_message
    split_chunks,                          \* what split_long_message returned
    chunk_to_send,                         \* what ensure_valid_markdown returned
    applied,                               \* which function was applied: "none", "split", "markdown"
    loop,                                  \* the locals of the running split_long_message loop
    \* ---- delivery and handlers (bot/handlers.py) ----
    delivery,                              \* the send_text_response_possibly_chunked run and what it sent
    handler,                               \* the message handler run and what it did
    \* ---- concurrent requests ----
    runs                                   \* per request of one user: its process_ai_interaction run

albumVars == <<since, FEATURE_ENABLE_IMAGE_UNDERSTANDING, MAX_IMAGES_PER_ALBUM,
               media_group_cache, tasks, arrivals>>

quotaVars == <<today, DAILY_CHAT_LIMIT_PER_USER, dbAvailable, user_preferences,
               lastCheck, allowedToday>>

orchVars == <<FEATURE_ENABLE_DAILY_CHAT_LIMIT, FEATURE_ENABLE_DATABASE,
              FEATURE_ENABLE_CONVERSATION_HISTORY, FEATURE_ENABLE_GEMINI, GEMINI_API_KEY,
              FEATURE_ENABLE_AUDIO_UNDERSTANDING, FEATURE_ENABLE_DOCUMENT_UNDERSTANDING,
              translations, conversation_history, req>>

\* the configuration the orchestrator reads and never writes
orchConfig == <<FEATURE_ENABLE_DAILY_CHAT_LIMIT, FEATURE_ENABLE_DATABASE,
                FEATURE_ENABLE_CONVERSATION_HISTORY, FEATURE_ENABLE_GEMINI, GEMINI_API_KEY,
                FEATURE_ENABLE_AUDIO_UNDERSTANDING, FEATURE_ENABLE_DOCUMENT_UNDERSTANDING,
                translations>>

textVars == <<text_arg, max_length_arg, split_chunks, chunk_to_send, applied, loop>>

deliveryVars == <<delivery, handler>>

vars == <<albumVars, quotaVars, orchVars, textVars, deliveryVars, runs>>

\* what the album aggregator leaves alone, what the quota leaves alone, and
\* what the orchestrator leaves alone
notAlbum == <<quotaVars, orchVars, textVars, deliveryVars, runs>>
notQuota == <<albumVars, orchVars, textVars, deliveryVars, runs>>
notOrch == <<albumVars, today, DAILY_CHAT_LIMIT_PER_USER, dbAvailable, allowedToday,
             orchConfig, textVars, deliveryVars, runs>>
notText == <<albumVars, quotaVars, orchVars, deliveryVars, runs>>
\* what the delivery leaves alone, besides the run of its caller
notDelivery == <<albumVars, quotaVars, orchConfig, conversation_history, textVars, handler,
                 runs>>

-----------------------------------------------------------------------------
(* Bounds of the model *)

MaxItems == 3        \* album messages received in one run
MaxAlbumLimit == 2   \* MAX_IMAGES_PER_ALBUM is drawn from 1..MaxAlbumLimit
MaxFairItems == 2    \* album messages received in one run under fair scheduling

MaxLimit == 2        \* DAILY_CHAT_LIMIT_PER_USER is drawn from 0..MaxLimit
MaxDay == 2          \* days are 0..MaxDay; the run starts on day 1
MaxCalls == 3        \* quota calls of one user on one day

MaxTextLen == 6      \* length of the texts given to split_long_message
MaxSplitLength == 5  \* max_length is drawn from 1..MaxSplitLength
MaxChunkLen == 6     \* length of the chunks given to ensure_valid_markdown
MaxResponseLen == 5  \* length of the responses given to the delivery
MaxLoopTextLen == 4  \* length of the texts whose split loop runs step by step
MaxLoopLength == 3   \* max_length of the loop run step by step, from 1..MaxLoopLength

Keys == {"g1", "g2"}     \* media group ids
Users == {"u1", "u2"}    \* user ids

None == "None"

\* ALBUM_PROCESSING_TIMEOUT = 2.5 time units = 2 ticks of 1.25
ALBUM_PROCESSING_TIMEOUT == 2

-----------------------------------------------------------------------------
(* Helpers on sequences *)

Min(a, b) == IF a < b THEN a ELSE b

\* s[:n] of the source
Take(s, n) == SubSeq(s, 1, Min(n, Len(s)))

Range(s) == {s[i] : i \in 1..Len(s)}

RECURSIVE SelectIdx(_, _, _)
\* the indices i in lo..n with ok[i], in increasing order
SelectIdx(ok, i, n) ==
    IF i > n THEN <<>>
    ELSE IF ok[i] THEN <<i>> \o SelectIdx(ok, i + 1, n)
    ELSE SelectIdx(ok, i + 1, n)

-----------------------------------------------------------------------------
(* Values of the quota state before any call *)

\* no row of the user in user_preferences
NoRow == [present |-> FALSE, count_null |-> FALSE, daily_chat_count |-> 0,
          date_kind |-> "null", date |-> 0]

\* no call of check_and_update_chat_limit was made yet
NoCheck == [user |-> "none", before |-> NoRow, day |-> 0, rd |-> "ok", wr |-> "ok",
            can_chat |-> FALSE, remaining |-> 0, failed_open |-> FALSE]

\* per user: the calls made, the calls allowed and whether every persistence
\* operation succeeded, on the current day
NoCalls == [u \in Users |-> [calls |-> 0, allowed |-> 0, clean |-> TRUE]]

-----------------------------------------------------------------------------
(* Localization: core/localization.py.  A string is kept as what it was made *)
(* from: its form, the key or name of its source, and the value put into    *)
(* its placeholder.  Two strings are equal when the three are equal.         *)

NoArg == "none"

Text(form, key, arg) == [form |-> form, key |-> key, arg |-> arg]

NoText == Text("none", "none", NoArg)

\* bot/handlers.py:390-398
possible_error_keys_with_vars ==
    {"gemini_request_blocked", "gemini_model_not_found", "gemini_error_contacting",
     "audio_format_not_supported_gemini", "document_format_not_supported",
     "audio_too_large", "document_too_large"}

\* bot/handlers.py:399-403
possible_error_keys_no_vars ==
    {"ai_feature_disabled", "gemini_api_key_not_configured", "gemini_no_content_to_send",
     "gemini_no_valid_response", "gemini_empty_response", "error_processing_audio_data",
     "error_determining_audio_mime", "error_processing_document_data"}

\* the keys process_ai_interaction and get_gemini_response translate
TranslationKeys ==
    possible_error_keys_with_vars \cup possible_error_keys_no_vars
    \cup {"chat_limit_reached", "gemini_processing", "processing_document_prompt",
          "processing_audio_prompt", "processing_image_prompt", "default_image_prompt",
          "default_audio_prompt_describe", "default_document_prompt_summarize"}

\* the locale files are data: a key is missing, or its text has no
\* placeholder ("plain"), or its text has a placeholder ("vars")
FullTable ==
    [k \in TranslationKeys |->
        IF k \in possible_error_keys_with_vars \cup {"chat_limit_reached"}
        THEN "vars" ELSE "plain"]

PlainTable == [k \in TranslationKeys |-> "plain"]

MissingTable == [k \in TranslationKeys |-> "missing"]

TranslationTables == {FullTable, PlainTable, MissingTable}

\* get_translation(key, lang, default_return_key_on_missing, **kwargs) for a
\* loaded language; kwargs is the value given for the placeholder, or NoArg
get_translation(key, default_return_key_on_missing, kwargs) ==
    LET text == translations[key]
    IN IF text = "missing"
       THEN \* line 61
            IF default_return_key_on_missing THEN Text("key", key, NoArg)
            ELSE Text("TR_MISSING", key, NoArg)
       ELSE IF text = "plain"
       THEN \* line 64: nothing to fill in
            Text("text", key, NoArg)
       ELSE IF kwargs = NoArg
       THEN \* lines 65-67: KeyError, the text is returned unformatted
            Text("template", key, NoArg)
       ELSE Text("text", key, kwargs)

-----------------------------------------------------------------------------
(* Orchestrator: the run of process_ai_interaction before it starts *)

\* the user of the request
Requester == "u1"

NoReq ==
    [pc |-> "idle", prompt_text |-> None, media |-> "none", mime |-> None,
     can_chat |-> "not_checked", table0 |-> <<>>, replies |-> <<>>,
     processing_msg |-> FALSE, history_reads |-> 0, history_read_ok |-> FALSE,
     history |-> <<>>, provider_calls |-> 0, contents_for_api |-> <<>>, raw |-> NoText,
     is_error_response |-> FALSE, history_writes |-> <<>>,
     delivery_entered |-> FALSE]

\* split_long_message is not running: its locals as lines 33-34 set them
NoLoop == [current_pos |-> 0, iterations |-> 0, chunks |-> <<>>]

\* the requests that run side by side
Runs == {1, 2}

\* none of them has started
NoRuns == [i \in Runs |-> NoReq]

\* no send_text_response_possibly_chunked run
NoDelivery ==
    [pc |-> "idle", text_response |-> <<>>, reply_to_bot |-> FALSE, chunked |-> FALSE,
     chunks |-> <<>>, i |-> 0, log |-> <<>>]

\* no handler run
NoHandler ==
    [pc |-> "idle",
     update |-> [name |-> None, text |-> None, reply_to_message |-> "none",
                 mime |-> None, size_ok |-> TRUE, download |-> "ok"],
     reply_to_bot |-> FALSE, rejected |-> "none",
     pending |-> None, then |-> "return", notices |-> <<>>,
     input |-> [prompt_text |-> None, media |-> "none", mime |-> None]]

-----------------------------------------------------------------------------
(* Album aggregator *)

NoAlbum == [messages |-> <<>>, timer |-> 0, user_id |-> 0,
            initial_message_for_reply |-> 0, present |-> FALSE]

TaskIds == 1..Len(tasks)

\* a process_complete_album task that is still in asyncio.sleep
Sleeping(t) == tasks[t].pc = "sleep"

\* a process_complete_album task that is past the sleep and not finished
Flushing(t) == tasks[t].pc \in {"notify", "download", "err_notice", "orch"}

\* (mutant) the new timer goes on from where the earlier timer of the group was
NewTaskFromFirst(k) ==
    [key |-> k, pc |-> "sleep",
     slept |-> IF media_group_cache[k].present /\ media_group_cache[k].timer # 0
               THEN tasks[media_group_cache[k].timer].slept ELSE 0,
     popped |-> FALSE, batch |-> <<>>, count |-> 0, photos |-> <<>>,
     notices |-> 0, notified_limit |-> FALSE, errors |-> 0,
     okv |-> <<>>, bytes |-> <<>>, mimes |-> <<>>, called |-> FALSE]

\* (mutant) the new timer never runs
NewTaskCancelled(k) ==
    [key |-> k, pc |-> "cancelled", slept |-> 0,
     popped |-> FALSE, batch |-> <<>>, count |-> 0, photos |-> <<>>,
     notices |-> 0, notified_limit |-> FALSE, errors |-> 0,
     okv |-> <<>>, bytes |-> <<>>, mimes |-> <<>>, called |-> FALSE]

\* asyncio.create_task(process_complete_album(media_group_id, bot))
NewTask(k) ==
    [key |-> k, pc |-> "sleep", slept |-> 0,
     popped |-> FALSE, batch |-> <<>>, count |-> 0, photos |-> <<>>,
     notices |-> 0, notified_limit |-> FALSE, errors |-> 0,
     okv |-> <<>>, bytes |-> <<>>, mimes |-> <<>>, called |-> FALSE]

\* (mutant) the earlier timer is left running
CancelTimerNot(ts, t) == ts

\* timer.cancel(): the task gets CancelledError at its sleep
CancelTimer(ts, t) ==
    IF t # 0 /\ ts[t].pc = "sleep"
    THEN [ts EXCEPT ![t].pc = "cancelled", ![t].slept = 0]
    ELSE ts

\* handle_media_album_part: one album message (photo or video) arrives
HandleMediaAlbumPart(k, photo, hasUser) ==
    /\ Len(arrivals) < MaxItems
    /\ LET id == Len(arrivals) + 1
           \* lines 668-669: the two early returns
           handled == FEATURE_ENABLE_IMAGE_UNDERSTANDING /\ hasUser
           entry0 == IF media_group_cache[k].present THEN media_group_cache[k]
                     ELSE [messages |-> <<>>, timer |-> 0, user_id |-> 1,
                           initial_message_for_reply |-> id, present |-> TRUE]
           entry1 == IF photo THEN [entry0 EXCEPT !.messages = Append(@, id)]
                     ELSE entry0
           tid == Len(tasks) + 1
       IN IF handled
          THEN /\ arrivals' = Append(arrivals,
                     [key |-> k, photo |-> photo,
                      tight |-> since[k] < ALBUM_PROCESSING_TIMEOUT])
               /\ since' = [since EXCEPT ![k] = 0]
               /\ tasks' = Append(CancelTimer(tasks, entry1.timer), NewTask(k))
               /\ media_group_cache' =
                     [media_group_cache EXCEPT ![k] = [entry1 EXCEPT !.timer = tid]]
          ELSE UNCHANGED <<arrivals, since, tasks, media_group_cache>>
    /\ UNCHANGED <<FEATURE_ENABLE_IMAGE_UNDERSTANDING, MAX_IMAGES_PER_ALBUM, notAlbum>>

\* process_complete_album returns: its local lists are gone; what it did
\* (the batch it took, the notices it sent, the call it made) stays as history
Finished(task) ==
    [task EXCEPT !.pc = "done", !.photos = <<>>, !.okv = <<>>,
                 !.bytes = <<>>, !.mimes = <<>>]

\* (mutant) the entry stays in the registry
PopAlbumKeep(cache, k) == cache

\* media_group_cache.pop(media_group_id): the registry without the entry
PopAlbum(cache, k) == [cache EXCEPT ![k] = NoAlbum]

\* (mutant) an entry without photos is processed like any other
IncompleteAlbumNever(messages_in_album) == FALSE

\* process_complete_album line 597: "if not messages_in_album or ...": the
\* entry holds no photo (initial_message, user_id and from_user are always set
\* by handle_media_album_part)
IncompleteAlbum(messages_in_album) == messages_in_album = <<>>

\* process_complete_album, from the end of the sleep to the first suspension
TimerExpire(t) ==
    /\ t \in TaskIds
    /\ Sleeping(t)
    /\ tasks[t].slept >= ALBUM_PROCESSING_TIMEOUT
    /\ LET k == tasks[t].key
           album_data == media_group_cache[k]
           messages_in_album == album_data.messages
           original_photo_count == Len(messages_in_album)
       IN IF ~album_data.present
          THEN /\ tasks' = [tasks EXCEPT ![t] = Finished(@)]
               /\ UNCHANGED media_group_cache
          ELSE /\ media_group_cache' = PopAlbum(media_group_cache, k)
               /\ tasks' = [tasks EXCEPT ![t] =
                     IF IncompleteAlbum(messages_in_album)
                     THEN Finished([@ EXCEPT !.popped = TRUE])
                     ELSE [@ EXCEPT
                             !.popped = TRUE,
                             !.batch = messages_in_album,
                             !.count = original_photo_count,
                             !.photos = messages_in_album,
                             !.pc = IF original_photo_count > MAX_IMAGES_PER_ALBUM
                                    THEN "notify" ELSE "download"]]
    /\ UNCHANGED <<since, FEATURE_ENABLE_IMAGE_UNDERSTANDING, MAX_IMAGES_PER_ALBUM,
                   arrivals, notAlbum>>

\* (mutant) the cut keeps one image too many
TruncateOneMore(photos) == Take(photos, MAX_IMAGES_PER_ALBUM + 1)

\* images_to_process_from_album[:MAX_IMAGES_PER_ALBUM]
Truncate(photos) == Take(photos, MAX_IMAGES_PER_ALBUM)

\* process_complete_album lines 616-620: the truncation notice was sent (ok) or
\* the send raised (~ok); then the list is cut to MAX_IMAGES_PER_ALBUM
NotifyLimit(t, ok) ==
    /\ t \in TaskIds
    /\ tasks[t].pc = "notify"
    /\ tasks' = [tasks EXCEPT
          ![t].notices = @ + 1,
          ![t].notified_limit = ok,
          ![t].photos = Truncate(@),
          ![t].pc = "download"]
    /\ UNCHANGED <<since, FEATURE_ENABLE_IMAGE_UNDERSTANDING, MAX_IMAGES_PER_ALBUM,
                   media_group_cache, arrivals, notAlbum>>

\* what bot.get_file and bot.download_file can answer for one photo
FileInfos ==
    { [ok |-> FALSE, mime_type |-> None, ext |-> None],
      [ok |-> TRUE, mime_type |-> "image/png", ext |-> ".jpg"],
      [ok |-> TRUE, mime_type |-> None, ext |-> ".webp"] }

\* ext_map of download_photo_task
ExtMap(ext, default) ==
    CASE ext = ".png" -> "image/png"
      [] ext = ".jpg" -> "image/jpeg"
      [] ext = ".jpeg" -> "image/jpeg"
      [] ext = ".webp" -> "image/webp"
      [] OTHER -> default

\* the None that download_photo_task returns on an exception
NoResult == [some |-> FALSE, bytes |-> 0, mime_type |-> None]

\* download_photo_task: None on any exception, else the bytes (named by the
\* message they come from) and the MIME type
DownloadPhotoTask(msg, info) ==
    IF ~info.ok THEN NoResult
    ELSE [some |-> TRUE, bytes |-> msg,
          mime_type |-> IF info.mime_type # None THEN info.mime_type
                        ELSE ExtMap(info.ext, "image/jpeg")]

\* (mutant) a failed download is kept
SuccessfulAll(results) == results

RECURSIVE Successful(_)
\* lines 647-650: the results that are not None, in order
Successful(results) ==
    IF results = <<>> THEN <<>>
    ELSE IF Head(results).some THEN <<Head(results)>> \o Successful(Tail(results))
    ELSE Successful(Tail(results))

\* process_complete_album lines 642-664: asyncio.gather of the downloads has
\* returned; the batch goes to process_ai_interaction, or nothing survived
Download(t, infos) ==
    /\ t \in TaskIds
    /\ tasks[t].pc = "download"
    /\ LET photos == tasks[t].photos
           results == [i \in 1..Len(photos) |-> DownloadPhotoTask(photos[i], infos[i])]
           good == Successful(results)
           downloaded_image_bytes_list == [i \in 1..Len(good) |-> good[i].bytes]
           downloaded_mime_types_list == [i \in 1..Len(good) |-> good[i].mime_type]
           after == [tasks[t] EXCEPT
                       !.okv = [i \in 1..Len(photos) |-> infos[i].ok],
                       !.bytes = downloaded_image_bytes_list,
                       !.mimes = downloaded_mime_types_list]
       IN tasks' = [tasks EXCEPT ![t] =
             IF downloaded_image_bytes_list # <<>>
             THEN [after EXCEPT !.called = TRUE, !.pc = "orch"]
             ELSE IF ~tasks[t].notified_limit \/ tasks[t].count = 0
                  THEN [after EXCEPT !.pc = "err_notice"]
             ELSE Finished(after)]
    /\ UNCHANGED <<since, FEATURE_ENABLE_IMAGE_UNDERSTANDING, MAX_IMAGES_PER_ALBUM,
                   media_group_cache, arrivals, notAlbum>>

\* process_complete_album line 655: the could-not-retrieve notice is sent
ErrNotice(t) ==
    /\ t \in TaskIds
    /\ tasks[t].pc = "err_notice"
    /\ tasks' = [tasks EXCEPT ![t] = Finished([@ EXCEPT !.errors = @ + 1])]
    /\ UNCHANGED <<since, FEATURE_ENABLE_IMAGE_UNDERSTANDING, MAX_IMAGES_PER_ALBUM,
                   media_group_cache, arrivals, notAlbum>>

\* process_complete_album lines 658-664: process_ai_interaction returns
OrchReturn(t) ==
    /\ t \in TaskIds
    /\ tasks[t].pc = "orch"
    /\ tasks' = [tasks EXCEPT ![t] = Finished(@)]
    /\ UNCHANGED <<since, FEATURE_ENABLE_IMAGE_UNDERSTANDING, MAX_IMAGES_PER_ALBUM,
                   media_group_cache, arrivals, notAlbum>>

\* one tick of the clock passes: every sleeping task has slept one tick more
Tick ==
    /\ since' = [k \in Keys |-> Min(since[k] + 1, ALBUM_PROCESSING_TIMEOUT)]
    /\ tasks' = [t \in TaskIds |->
                    IF tasks[t].pc = "sleep"
                    THEN [tasks[t] EXCEPT !.slept = Min(@ + 1, ALBUM_PROCESSING_TIMEOUT)]
                    ELSE tasks[t]]
    /\ UNCHANGED <<FEATURE_ENABLE_IMAGE_UNDERSTANDING, MAX_IMAGES_PER_ALBUM,
                   media_group_cache, arrivals, notAlbum>>

NextAlbum ==
    \/ \E k \in Keys, photo \in BOOLEAN, hasUser \in BOOLEAN :
          HandleMediaAlbumPart(k, photo, hasUser)
    \/ \E t \in TaskIds : TimerExpire(t)
    \/ \E t \in TaskIds, ok \in BOOLEAN : NotifyLimit(t, ok)
    \/ \E t \in TaskIds :
          \E infos \in [1..Len(tasks[t].photos) -> FileInfos] : Download(t, infos)
    \/ \E t \in TaskIds : ErrNotice(t)
    \/ \E t \in TaskIds : OrchReturn(t)
    \/ Tick

InitAlbum ==
    /\ since = [k \in Keys |-> ALBUM_PROCESSING_TIMEOUT]
    /\ FEATURE_ENABLE_IMAGE_UNDERSTANDING \in BOOLEAN
    /\ MAX_IMAGES_PER_ALBUM \in 1..MaxAlbumLimit
    /\ media_group_cache = [k \in Keys |-> NoAlbum]
    /\ tasks = <<>>
    /\ arrivals = <<>>
    /\ today = 1
    /\ DAILY_CHAT_LIMIT_PER_USER = 0
    /\ dbAvailable = FALSE
    /\ user_preferences = [u \in Users |-> NoRow]
    /\ lastCheck = NoCheck
    /\ allowedToday = NoCalls
    /\ FEATURE_ENABLE_DAILY_CHAT_LIMIT = TRUE
    /\ FEATURE_ENABLE_DATABASE = TRUE
    /\ FEATURE_ENABLE_CONVERSATION_HISTORY = TRUE
    /\ FEATURE_ENABLE_GEMINI = TRUE
    /\ GEMINI_API_KEY = TRUE
    /\ FEATURE_ENABLE_AUDIO_UNDERSTANDING = TRUE
    /\ FEATURE_ENABLE_DOCUMENT_UNDERSTANDING = TRUE
    /\ translations = FullTable
    /\ conversation_history = <<>>
    /\ req = NoReq
    /\ text_arg = <<>>
    /\ max_length_arg = 1
    /\ split_chunks = <<>>
    /\ chunk_to_send = <<>>
    /\ applied = "none"
    /\ loop = NoLoop
    /\ runs = NoRuns
    /\ delivery = NoDelivery
    /\ handler = NoHandler

SpecAlbum == InitAlbum /\ [][NextAlbum]_vars

\* the steps of the album aggregator with at most MaxFairItems album messages
NextAlbumFair ==
    \/ \E k \in Keys, photo \in BOOLEAN, hasUser \in BOOLEAN :
          Len(arrivals) < MaxFairItems /\ HandleMediaAlbumPart(k, photo, hasUser)
    \/ \E t \in TaskIds : TimerExpire(t)
    \/ \E t \in TaskIds, ok \in BOOLEAN : NotifyLimit(t, ok)
    \/ \E t \in TaskIds :
          \E infos \in [1..Len(tasks[t].photos) -> FileInfos] : Download(t, infos)
    \/ \E t \in TaskIds : ErrNotice(t)
    \/ \E t \in TaskIds : OrchReturn(t)
    \/ Tick

\* the event loop runs every task that is ready: time goes on while a task
\* sleeps, and a task whose sleep is over is resumed
SpecAlbumFair ==
    /\ InitAlbum
    /\ [][NextAlbumFair]_vars
    /\ WF_vars(Tick)
    /\ WF_vars(\E t \in TaskIds : TimerExpire(t))

-----------------------------------------------------------------------------
(* Daily quota: core/database.py check_and_update_chat_limit *)

\* a row with its two quota columns: daily_chat_count (an integer or null) and
\* last_chat_reset_date (an ISO date, null, or text that is no date)
Row(count_null, count, date_kind, date) ==
    [present |-> TRUE, count_null |-> count_null, daily_chat_count |-> count,
     date_kind |-> date_kind, date |-> date]

\* the rows the table can hold when the process starts: none; a row written
\* by an earlier check; a row made by the language or model upsert, whose quota
\* columns are what the schema defaults to
StoredRows ==
    {NoRow}
    \cup {Row(FALSE, c, "date", d) : c \in 0..(MaxLimit + 1), d \in 0..1}
    \cup {Row(FALSE, 0, "null", 0), Row(TRUE, 0, "null", 0),
          Row(TRUE, 0, "date", 1), Row(FALSE, 1, "bad", 0)}

\* (mutant) a failure of the persistence rejects the request
FailClosed(row, daily_limit) ==
    [row |-> row, can_chat |-> FALSE, remaining |-> 0, failed_open |-> TRUE]

\* return True, daily_limit (lines 196, 240, 287)
FailOpen(row, daily_limit) ==
    [row |-> row, can_chat |-> TRUE, remaining |-> daily_limit, failed_open |-> TRUE]

\* (mutant) the same-day test lets the count reach one more than the limit
SameDayAllowedOneMore(count, daily_limit) == count <= daily_limit

\* line 257: current_db_count < daily_limit
SameDayAllowed(count, daily_limit) == count < daily_limit

\* (mutant) a new day keeps counting from the old count
ResetCountKeep(count) == count + 1

\* line 249: current_db_count = 1
ResetCount(count) == 1

\* (mutant) a rejected call is counted too
RejectedCounted(row) ==
    [row |-> [row EXCEPT !.daily_chat_count = @ + 1], can_chat |-> FALSE,
     remaining |-> 0, failed_open |-> FALSE]

\* lines 262-266: the limit is reached; db_update_payload = None, so nothing
\* is written
Rejected(row) ==
    [row |-> row, can_chat |-> FALSE, remaining |-> 0, failed_open |-> FALSE]

\* check_and_update_chat_limit(user_id, daily_limit) on the user's row.
\* rd: the select succeeds ("ok") or raises ("raise"); wr: the upsert or update
\* succeeds ("ok"), answers with an error attribute ("error") or raises ("raise").
CheckAndUpdateChatLimit(row, daily_limit, rd, wr) ==
    IF ~dbAvailable THEN FailOpen(row, daily_limit)
    ELSE IF rd = "raise" THEN FailOpen(row, daily_limit)
    ELSE IF ~row.present
    THEN \* lines 224-241: a new row
         IF wr = "ok"
         THEN [row |-> Row(FALSE, 1, "date", today), can_chat |-> TRUE,
               remaining |-> daily_limit - 1, failed_open |-> FALSE]
         ELSE FailOpen(row, daily_limit)
    ELSE IF row.date_kind = "null"
    THEN \* line 247: None < today raises TypeError, caught at line 285
         FailOpen(row, daily_limit)
    ELSE LET last_reset_date_from_db ==
                 IF row.date_kind = "bad" THEN today - 1 ELSE row.date
         IN IF last_reset_date_from_db < today
            THEN \* lines 247-255 and 268-279
                 LET current_db_count == ResetCount(row.daily_chat_count)
                 IN IF wr = "raise" THEN FailOpen(row, daily_limit)
                    ELSE [row |-> IF wr = "ok"
                                  THEN Row(FALSE, current_db_count, "date", today)
                                  ELSE row,
                          can_chat |-> TRUE,
                          remaining |-> daily_limit - current_db_count,
                          failed_open |-> FALSE]
            ELSE IF row.count_null
            THEN \* line 257: None < daily_limit raises TypeError
                 FailOpen(row, daily_limit)
            ELSE IF SameDayAllowed(row.daily_chat_count, daily_limit)
            THEN \* lines 257-261 and 268-279
                 LET current_db_count == row.daily_chat_count + 1
                 IN IF wr = "raise" THEN FailOpen(row, daily_limit)
                    ELSE [row |-> IF wr = "ok"
                                  THEN [row EXCEPT !.daily_chat_count = current_db_count]
                                  ELSE row,
                          can_chat |-> TRUE,
                          remaining |-> daily_limit - current_db_count,
                          failed_open |-> FALSE]
            ELSE Rejected(row)

\* one call of check_and_update_chat_limit(u, DAILY_CHAT_LIMIT_PER_USER); the
\* function has no await inside, so it is one step
CheckLimitCall(u, rd, wr) ==
    /\ allowedToday[u].calls < MaxCalls
    /\ LET res == CheckAndUpdateChatLimit(user_preferences[u],
                                          DAILY_CHAT_LIMIT_PER_USER, rd, wr)
       IN /\ user_preferences' = [user_preferences EXCEPT ![u] = res.row]
          /\ lastCheck' = [user |-> u, before |-> user_preferences[u], day |-> today,
                           rd |-> rd, wr |-> wr, can_chat |-> res.can_chat,
                           remaining |-> res.remaining, failed_open |-> res.failed_open]
          /\ allowedToday' = [allowedToday EXCEPT ![u] =
                [calls |-> @.calls + 1,
                 allowed |-> @.allowed + (IF res.can_chat THEN 1 ELSE 0),
                 clean |-> @.clean /\ rd = "ok" /\ wr = "ok"]]
    /\ UNCHANGED <<today, DAILY_CHAT_LIMIT_PER_USER, dbAvailable, notQuota>>

\* midnight: date.today() moves on
NewDay ==
    /\ today < MaxDay
    /\ today' = today + 1
    /\ allowedToday' = NoCalls
    /\ UNCHANGED <<DAILY_CHAT_LIMIT_PER_USER, dbAvailable, user_preferences, lastCheck,
                   notQuota>>

\* the table when the process starts: the row of one user is any stored row
InitQuota ==
    /\ today = 1
    /\ DAILY_CHAT_LIMIT_PER_USER \in 0..MaxLimit
    /\ dbAvailable \in BOOLEAN
    /\ \E r \in StoredRows :
          user_preferences = [u \in Users |-> IF u = "u1" THEN r ELSE NoRow]
    /\ lastCheck = NoCheck
    /\ allowedToday = NoCalls
    /\ since = [k \in Keys |-> ALBUM_PROCESSING_TIMEOUT]
    /\ FEATURE_ENABLE_IMAGE_UNDERSTANDING = TRUE
    /\ MAX_IMAGES_PER_ALBUM = 1
    /\ media_group_cache = [k \in Keys |-> NoAlbum]
    /\ tasks = <<>>
    /\ arrivals = <<>>
    /\ FEATURE_ENABLE_DAILY_CHAT_LIMIT = TRUE
    /\ FEATURE_ENABLE_DATABASE = TRUE
    /\ FEATURE_ENABLE_CONVERSATION_HISTORY = TRUE
    /\ FEATURE_ENABLE_GEMINI = TRUE
    /\ GEMINI_API_KEY = TRUE
    /\ FEATURE_ENABLE_AUDIO_UNDERSTANDING = TRUE
    /\ FEATURE_ENABLE_DOCUMENT_UNDERSTANDING = TRUE
    /\ translations = FullTable
    /\ conversation_history = <<>>
    /\ req = NoReq
    /\ text_arg = <<>>
    /\ max_length_arg = 1
    /\ split_chunks = <<>>
    /\ chunk_to_send = <<>>
    /\ applied = "none"
    /\ loop = NoLoop
    /\ runs = NoRuns
    /\ delivery = NoDelivery
    /\ handler = NoHandler

NextQuota ==
    \/ \E u \in Users, rd \in {"ok", "raise"}, wr \in {"ok", "error", "raise"} :
          CheckLimitCall(u, rd, wr)
    \/ NewDay

SpecQuota == InitQuota /\ [][NextQuota]_vars

-----------------------------------------------------------------------------
(* Conversation history: core/database.py *)

\* GEMINI_CONVERSATION_HISTORY_MAX_MESSAGES (an environment setting, default
\* 10); the model runs with 2
GEMINI_CONVERSATION_HISTORY_MAX_MESSAGES == 2

\* (mutant) the first n elements of s: the oldest turns
FirstN(s, n) == SubSeq(s, 1, Min(n, Len(s)))

\* the last n elements of s
LastN(s, n) == SubSeq(s, Len(s) - Min(n, Len(s)) + 1, Len(s))

OfUser(row) == row.user_id = Requester

\* line 119: {"role": msg["role"], "content": msg["content"]} for each row
RoleAndContent(rows) ==
    [i \in 1..Len(rows) |-> [role |-> rows[i].role, content |-> rows[i].content]]

\* get_conversation_history(user_id, limit); rd: the select succeeds or raises
get_conversation_history(rd) ==
    IF ~dbAvailable THEN <<>>
    ELSE IF rd = "raise" THEN <<>>
    ELSE RoleAndContent(LastN(SelectSeq(conversation_history, OfUser),
                              GEMINI_CONVERSATION_HISTORY_MAX_MESSAGES))

\* add_message_to_history(user_id, role, content) on a table; ok: the insert
\* succeeds
add_message_to_history(table, role, content, ok) ==
    IF ~dbAvailable THEN table
    ELSE IF ok THEN Append(table, [user_id |-> Requester, role |-> role, content |-> content])
    ELSE table

\* the table the process starts with: one earlier exchange of the requester
StoredHistory ==
    <<[user_id |-> Requester, role |-> "user", content |-> Text("prompt", "text", "")],
      [user_id |-> Requester, role |-> "model", content |-> Text("content", "answer", NoArg)]>>

\* a turn of another user
OtherTurn(role, n) == [user_id |-> "u2", role |-> role, content |-> Text("other", n, NoArg)]

\* an earlier turn of the requester
OwnTurn(role, n) == [user_id |-> Requester, role |-> role, content |-> Text("earlier", n, NoArg)]

\* the tables the process can start with: as many turns of the requester as
\* the window takes, fewer, or more, with turns of another user between them
StoredHistories ==
    {StoredHistory,
     <<OtherTurn("user", "1"), OwnTurn("model", "1"), OtherTurn("model", "2")>>,
     <<OwnTurn("user", "1"), OtherTurn("user", "1"), OwnTurn("model", "2"),
       OtherTurn("model", "2"), OwnTurn("user", "3")>>}

-----------------------------------------------------------------------------
(* Provider: core/gemini.py get_gemini_response *)

\* what get_gemini_response is given
Inputs ==
    {[prompt_text |-> p, media |-> m[1], mime |-> m[2]] :
        p \in {None, "blank", "text"},
        m \in {<<"none", None>>, <<"image", "image/jpeg">>, <<"audio", "audio/ogg">>,
               <<"audio", "audio/x-other">>, <<"doc", "application/pdf">>,
               <<"doc", "text/plain">>}}

\* lines 45-128: the answer get_gemini_response gives before it calls the
\* provider, NoText when it goes on to the call
GeminiBeforeCall(r, actual_prompt) ==
    IF ~FEATURE_ENABLE_GEMINI THEN get_translation("ai_feature_disabled", FALSE, NoArg)
    ELSE IF ~GEMINI_API_KEY THEN get_translation("gemini_api_key_not_configured", FALSE, NoArg)
    ELSE IF r.media = "audio" /\ r.mime # "audio/ogg"
    THEN get_translation("audio_format_not_supported_gemini", FALSE, "mime_type")
    ELSE IF r.media = "doc" /\ r.mime # "application/pdf"
    THEN get_translation("document_format_not_supported", FALSE, "mime_type")
    ELSE LET current_user_message_parts == r.media # "none" \/ actual_prompt # None
         IN IF ~current_user_message_parts /\ r.history = <<>>
            THEN get_translation("gemini_no_content_to_send", FALSE, NoArg)
            ELSE NoText

\* (mutant) the new user turn is left out
ContentsWithoutTurn(r, actual_prompt) == r.history

\* lines 65-121: contents_for_api, the history and after it the new user turn
ContentsForApi(r, actual_prompt) ==
    r.history \o
    (IF r.media # "none" \/ actual_prompt # None
     THEN <<[role |-> "user", content |-> Text("parts", actual_prompt, r.media)]>>
     ELSE <<>>)

\* what generate_content_async can come back with
ProviderOutcomes ==
    {"text", "empty_parts", "blocked", "model_not_found", "error", "error_dots"}

\* lines 132-166: the string returned for an outcome of the provider call
GeminiResult(outcome) ==
    CASE outcome = "text" -> Text("content", "answer", NoArg)
      [] outcome = "empty_parts" -> get_translation("gemini_empty_response", FALSE, NoArg)
      [] outcome = "blocked" -> get_translation("gemini_request_blocked", FALSE, "reasons")
      [] outcome = "model_not_found" -> get_translation("gemini_model_not_found", FALSE, "model_id")
      [] outcome = "error" -> get_translation("gemini_error_contacting", FALSE, "error_message")
      [] outcome = "error_dots" -> get_translation("gemini_error_contacting", FALSE, "...")

-----------------------------------------------------------------------------
(* Orchestrator: bot/handlers.py process_ai_interaction *)

\* message.reply(text): the call and whether the transport took it
Reply(r, kind, text, ok) ==
    [r EXCEPT !.replies = Append(@, [kind |-> kind, text |-> text, ok |-> ok])]

\* line 332, 334-335
actual_prompt_text_for_gemini(r) ==
    LET stripped == IF r.prompt_text \in {None, "blank"} THEN None ELSE r.prompt_text
    IN IF r.media = "image" /\ FEATURE_ENABLE_IMAGE_UNDERSTANDING /\ stripped = None
       THEN "default_image_prompt"
       ELSE stripped

\* (mutant) any prompt counts as text
HasTextAlways(r) == TRUE

has_text_input(r) == actual_prompt_text_for_gemini(r) # None
has_image_input(r) == r.media = "image" /\ FEATURE_ENABLE_IMAGE_UNDERSTANDING
has_audio_input(r) == r.media = "audio" /\ FEATURE_ENABLE_AUDIO_UNDERSTANDING
has_doc_input(r) == r.media = "doc" /\ FEATURE_ENABLE_DOCUMENT_UNDERSTANDING

\* lines 346-352
processing_key(r) ==
    IF has_doc_input(r) THEN "processing_document_prompt"
    ELSE IF has_audio_input(r) THEN "processing_audio_prompt"
    ELSE IF has_image_input(r) THEN "processing_image_prompt"
    ELSE "gemini_processing"

\* lines 354-361
processing_text_str(r) ==
    LET t == get_translation(processing_key(r), TRUE, NoArg)
    IN IF t = Text("key", processing_key(r), NoArg)
       THEN Text("literal", "Thinking...", NoArg)
       ELSE t

\* lines 405-415: the strings a raw answer is compared with
translated_error_test_values ==
    {get_translation(k, TRUE, "...") : k \in possible_error_keys_with_vars}
    \cup {get_translation(k, TRUE, NoArg) : k \in possible_error_keys_with_vars}
    \cup {get_translation(k, TRUE, NoArg) : k \in possible_error_keys_no_vars}

\* (mutant) nothing is kept of the prompt
PromptNotSaved(r) == NoText

\* lines 424-435
prompt_saved_to_history(r) ==
    LET base(default) == IF r.prompt_text # None THEN r.prompt_text ELSE default
    IN IF has_image_input(r)
       THEN Text("prompt", base("default_image_prompt"), " [n image(s) processed]")
       ELSE IF has_audio_input(r)
       THEN Text("prompt", base("default_audio_prompt_describe"), " [audio processed]")
       ELSE IF has_doc_input(r)
       THEN Text("prompt", base("default_document_prompt_summarize"), " [document processed]")
       ELSE IF actual_prompt_text_for_gemini(r) = None THEN NoText
       ELSE Text("prompt", actual_prompt_text_for_gemini(r), "")

\* (mutant) a rejected quota call does not stop the request
QuotaRejectedNot(can_chat) == FALSE

\* line 320: if not can_chat
QuotaRejected(can_chat) == ~can_chat

\* (mutant) an error answer does not stop the request
StopOnErrorNot(is_error_response) == FALSE

\* line 420: if is_error_response
StopOnError(is_error_response) == is_error_response

\* lines 388-441 up to the next send: classify the raw answer of r; an error
\* answer is replied, any other answer is saved and handed to the delivery.
\* uok, mok: the insert of the user turn, of the model turn, succeeds
Classify(r, uok, mok) ==
    LET err == r.raw \in translated_error_test_values
        r1 == [r EXCEPT !.is_error_response = err]
        save == FEATURE_ENABLE_CONVERSATION_HISTORY /\ FEATURE_ENABLE_DATABASE
        p == prompt_saved_to_history(r)
        t1 == IF save /\ p # NoText
              THEN add_message_to_history(conversation_history, "user", p, uok)
              ELSE conversation_history
        t2 == IF save THEN add_message_to_history(t1, "model", r.raw, mok) ELSE t1
        writes == (IF save /\ p # NoText
                   THEN <<[role |-> "user", inserted |-> dbAvailable /\ uok]>> ELSE <<>>)
                  \o (IF save
                      THEN <<[role |-> "model", inserted |-> dbAvailable /\ mok]>> ELSE <<>>)
    IN IF StopOnError(err)
       THEN [req |-> [r1 EXCEPT !.pc = "reply_error"], table |-> conversation_history]
       ELSE [req |-> [r1 EXCEPT !.history_writes = writes,
                                !.delivery_entered = TRUE,
                                !.pc = "delivering"],
             table |-> t2]

\* lines 384-388: with the raw answer; the processing notice, if there is
\* one, is deleted first
AfterGemini(r, raw, uok, mok) ==
    LET r1 == [r EXCEPT !.raw = raw]
    IN IF r1.processing_msg
       THEN [req |-> [r1 EXCEPT !.pc = "delete"], table |-> conversation_history]
       ELSE Classify(r1, uok, mok)

\* lines 318-361: from the call to the first send; rd: the select of the quota
\* row succeeds or raises (its write succeeds)
Start(in, rd) ==
    /\ req.pc = "idle"
    /\ LET quota == FEATURE_ENABLE_DAILY_CHAT_LIMIT /\ FEATURE_ENABLE_DATABASE
           wr == "ok"
           res == CheckAndUpdateChatLimit(user_preferences[Requester],
                                          DAILY_CHAT_LIMIT_PER_USER, rd, wr)
           r0 == [req EXCEPT !.prompt_text = in.prompt_text,
                             !.media = in.media,
                             !.mime = in.mime,
                             !.table0 = conversation_history,
                             !.can_chat = IF ~quota THEN "not_checked"
                                          ELSE IF res.can_chat THEN "allowed"
                                          ELSE "rejected"]
       IN /\ IF quota
             THEN /\ user_preferences' = [user_preferences EXCEPT ![Requester] = res.row]
                  /\ lastCheck' = [user |-> Requester,
                                   before |-> user_preferences[Requester],
                                   day |-> today, rd |-> rd, wr |-> wr,
                                   can_chat |-> res.can_chat,
                                   remaining |-> res.remaining,
                                   failed_open |-> res.failed_open]
             ELSE UNCHANGED <<user_preferences, lastCheck>>
          /\ req' = IF quota /\ QuotaRejected(res.can_chat)
                    THEN [r0 EXCEPT !.pc = "reply_limit"]
                    ELSE IF ~FEATURE_ENABLE_GEMINI
                    THEN [r0 EXCEPT !.pc = "reply_disabled"]
                    ELSE IF ~(has_text_input(r0) \/ has_image_input(r0)
                              \/ has_audio_input(r0) \/ has_doc_input(r0))
                    THEN [r0 EXCEPT !.pc = "reply_nocontent"]
                    ELSE [r0 EXCEPT !.pc = "reply_processing"]
    /\ UNCHANGED <<conversation_history, notOrch>>

\* lines 321, 329, 341: the notice is sent and the function returns; a send the
\* transport refuses raises out of the function
ReplyNotice(ok) ==
    /\ req.pc \in {"reply_limit", "reply_disabled", "reply_nocontent"}
    /\ LET text == CASE req.pc = "reply_limit" ->
                          get_translation("chat_limit_reached", FALSE, "limit_count")
                     [] req.pc = "reply_disabled" ->
                          get_translation("ai_feature_disabled", FALSE, NoArg)
                     [] req.pc = "reply_nocontent" ->
                          get_translation("gemini_no_content_to_send", FALSE, NoArg)
           kind == CASE req.pc = "reply_limit" -> "limit"
                     [] req.pc = "reply_disabled" -> "disabled"
                     [] req.pc = "reply_nocontent" -> "nocontent"
       IN req' = [Reply(req, kind, text, ok) EXCEPT !.pc = IF ok THEN "done" ELSE "raised"]
    /\ UNCHANGED <<conversation_history, user_preferences, lastCheck, notOrch>>

\* lines 363-383: the processing notice (a failure is logged), the history
\* read, and get_gemini_response up to the provider call
SendProcessing(ok, rd, uok, mok) ==
    /\ req.pc = "reply_processing"
    /\ LET r1 == [Reply(req, "processing", processing_text_str(req), ok)
                    EXCEPT !.processing_msg = ok]
           read == FEATURE_ENABLE_CONVERSATION_HISTORY /\ FEATURE_ENABLE_DATABASE
           r2 == [r1 EXCEPT !.history_reads = IF read THEN 1 ELSE 0,
                            !.history_read_ok = read /\ dbAvailable /\ rd = "ok",
                            !.history = IF read THEN get_conversation_history(rd)
                                        ELSE <<>>]
           early == GeminiBeforeCall(r2, actual_prompt_text_for_gemini(r2))
           after == AfterGemini(r2, early, uok, mok)
       IN IF early = NoText
          THEN /\ req' = [r2 EXCEPT !.provider_calls = 1,
                                    !.contents_for_api =
                                        ContentsForApi(r2, actual_prompt_text_for_gemini(r2)),
                                    !.pc = "provider"]
               /\ UNCHANGED conversation_history
          ELSE /\ req' = after.req
               /\ conversation_history' = after.table
    /\ UNCHANGED <<user_preferences, lastCheck, notOrch>>

\* line 132 and what follows it: generate_content_async comes back
ProviderReturns(outcome, uok, mok) ==
    /\ req.pc = "provider"
    /\ LET after == AfterGemini(req, GeminiResult(outcome), uok, mok)
       IN /\ req' = after.req
          /\ conversation_history' = after.table
    /\ UNCHANGED <<user_preferences, lastCheck, notOrch>>

\* lines 386-388: processing_msg.delete(), a failure is ignored
DeleteProcessing(ok, uok, mok) ==
    /\ req.pc = "delete"
    /\ LET after == Classify(req, uok, mok)
       IN /\ req' = after.req
          /\ conversation_history' = after.table
    /\ UNCHANGED <<user_preferences, lastCheck, notOrch>>

\* lines 420-422: the error answer is replied and the function returns
ReplyError(ok) ==
    /\ req.pc = "reply_error"
    /\ req' = [Reply(req, "error", req.raw, ok) EXCEPT !.pc = IF ok THEN "done" ELSE "raised"]
    /\ UNCHANGED <<conversation_history, user_preferences, lastCheck, notOrch>>

\* line 441: send_text_response_possibly_chunked returns, or raises
DeliveryReturns(ok) ==
    /\ req.pc = "delivering"
    /\ req' = [req EXCEPT !.pc = IF ok THEN "done" ELSE "raised"]
    /\ UNCHANGED <<conversation_history, user_preferences, lastCheck, notOrch>>

\* the row of the requester when the process starts: one chat made today
OrchRow == Row(FALSE, 1, "date", 1)

\* the configuration is what config.py accepts: the AI feature needs its key
\* (lines 25-26) and the client exists only with the database feature; the
\* three media features are on together or off together
InitOrch ==
    /\ FEATURE_ENABLE_DAILY_CHAT_LIMIT \in BOOLEAN
    /\ FEATURE_ENABLE_DATABASE \in BOOLEAN
    /\ dbAvailable \in BOOLEAN
    /\ dbAvailable => FEATURE_ENABLE_DATABASE
    /\ FEATURE_ENABLE_CONVERSATION_HISTORY \in BOOLEAN
    /\ FEATURE_ENABLE_GEMINI \in BOOLEAN
    /\ GEMINI_API_KEY \in BOOLEAN
    /\ FEATURE_ENABLE_GEMINI => GEMINI_API_KEY
    /\ FEATURE_ENABLE_IMAGE_UNDERSTANDING \in BOOLEAN
    /\ FEATURE_ENABLE_AUDIO_UNDERSTANDING = FEATURE_ENABLE_IMAGE_UNDERSTANDING
    /\ FEATURE_ENABLE_DOCUMENT_UNDERSTANDING = FEATURE_ENABLE_IMAGE_UNDERSTANDING
    /\ translations \in TranslationTables
    /\ conversation_history \in StoredHistories
    /\ req = NoReq
    /\ text_arg = <<>>
    /\ max_length_arg = 1
    /\ split_chunks = <<>>
    /\ chunk_to_send = <<>>
    /\ applied = "none"
    /\ loop = NoLoop
    /\ runs = NoRuns
    /\ delivery = NoDelivery
    /\ handler = NoHandler
    /\ today = 1
    /\ DAILY_CHAT_LIMIT_PER_USER \in 0..MaxLimit
    /\ user_preferences = [u \in Users |-> IF u = Requester THEN OrchRow ELSE NoRow]
    /\ lastCheck = NoCheck
    /\ allowedToday = NoCalls
    /\ since = [k \in Keys |-> ALBUM_PROCESSING_TIMEOUT]
    /\ MAX_IMAGES_PER_ALBUM = 1
    /\ media_group_cache = [k \in Keys |-> NoAlbum]
    /\ tasks = <<>>
    /\ arrivals = <<>>

NextOrch ==
    \/ \E in \in Inputs, rd \in {"ok", "raise"} : Start(in, rd)
    \/ \E ok \in BOOLEAN : ReplyNotice(ok)
    \/ \E ok \in BOOLEAN, rd \in {"ok", "raise"}, uok \in BOOLEAN, mok \in BOOLEAN :
          SendProcessing(ok, rd, uok, mok)
    \/ \E outcome \in ProviderOutcomes, uok \in BOOLEAN, mok \in BOOLEAN :
          ProviderReturns(outcome, uok, mok)
    \/ \E ok \in BOOLEAN, uok \in BOOLEAN, mok \in BOOLEAN : DeleteProcessing(ok, uok, mok)
    \/ \E ok \in BOOLEAN : ReplyError(ok)
    \/ \E ok \in BOOLEAN : DeliveryReturns(ok)

SpecOrch == InitOrch /\ [][NextOrch]_vars

-----------------------------------------------------------------------------
(* Text utilities: bot/utils.py.  A string is a sequence of one-character   *)
(* strings; positions are the 0-based positions of the source.               *)

\* text[a:b]
Slice(text, a, b) == SubSeq(text, a + 1, b)

\* str.isspace() on the characters of the model
isspace(c) == c \in {" ", "\n", "\t"}

Max(S) == CHOOSE x \in S : \A y \in S : y <= x

\* text.rfind(c, start, end) for a single character c
rfind(text, c, start, end) ==
    LET found == {i \in start..(end - 1) : text[i + 1] = c}
    IN IF found = {} THEN -1 ELSE Max(found)

\* (mutant) a double newline is never found
rfind_double_newline_never(text, start, end) == -1

\* text.rfind('\n\n', start, end)
rfind_double_newline(text, start, end) ==
    LET found == {i \in start..(end - 2) : text[i + 1] = "\n" /\ text[i + 2] = "\n"}
    IN IF found = {} THEN -1 ELSE Max(found)

\* (mutant) the hard cut takes one character more than the window
HardCutOver(end_pos) == end_pos + 1

\* line 57: split_at = end_pos
HardCut(end_pos) == end_pos

\* (mutant) the cut comes after one character
SplitAtOne(text, current_pos, end_pos) == current_pos + 1

\* lines 43-57: the cut chosen inside the window [current_pos, end_pos)
SplitAt(text, current_pos, end_pos) ==
    IF rfind_double_newline(text, current_pos, end_pos) > current_pos
    THEN rfind_double_newline(text, current_pos, end_pos) + 2
    ELSE IF rfind(text, "\n", current_pos, end_pos) > current_pos
    THEN rfind(text, "\n", current_pos, end_pos) + 1
    ELSE IF rfind(text, " ", current_pos, end_pos) > current_pos
    THEN rfind(text, " ", current_pos, end_pos) + 1
    ELSE HardCut(end_pos)

\* (mutant) the character after the cut is skipped whatever it is
SkipOne(text, current_pos) == current_pos + 1

\* lines 62-63: skip the whitespace after the cut
RECURSIVE SkipSpace(_, _)
SkipSpace(text, current_pos) ==
    IF current_pos < Len(text) /\ isspace(text[current_pos + 1])
    THEN SkipSpace(text, current_pos + 1)
    ELSE current_pos

\* (mutant) the last chunk loses its last character
LastChunkShort(text, current_pos) == Slice(text, current_pos, Len(text) - 1)

\* line 40: text[current_pos:]
LastChunk(text, current_pos) == Slice(text, current_pos, Len(text))

\* lines 37-63: the loop, from current_pos with the chunks made so far
RECURSIVE SplitLoop(_, _, _, _)
SplitLoop(text, max_length, current_pos, chunks) ==
    IF ~(current_pos < Len(text)) THEN chunks
    ELSE LET end_pos == current_pos + max_length
         IN IF end_pos >= Len(text)
            THEN Append(chunks, LastChunk(text, current_pos))
            ELSE LET split_at == SplitAt(text, current_pos, end_pos)
                 IN SplitLoop(text, max_length, SkipSpace(text, split_at),
                              Append(chunks, Slice(text, current_pos, split_at)))

NonEmpty(chunk) == chunk # <<>>

\* split_long_message(text, max_length)
split_long_message(text, max_length) ==
    IF text = <<>> THEN <<>>
    ELSE SelectSeq(SplitLoop(text, max_length, 0, <<>>), NonEmpty)

\* the backtick character (a string of the model cannot hold it)
Backtick == "backtick"

single_char_symbols == {"*", Backtick, "~"}

\* the three backticks of multi_char_symbols, as text and as stack entry
Fence == <<Backtick, Backtick, Backtick>>

FenceSymbol == "fence"

\* what a delimiter on the stack is written as
Written(symbol) == IF symbol = FenceSymbol THEN Fence ELSE <<symbol>>

\* (mutant) nothing is appended for the delimiters left open
CloseNone(stack) == <<>>

\* lines 97-102: the delimiters left on the stack, last opened first
RECURSIVE CloseUnmatched(_)
CloseUnmatched(stack) ==
    IF stack = <<>> THEN <<>>
    ELSE Written(stack[Len(stack)]) \o CloseUnmatched(SubSeq(stack, 1, Len(stack) - 1))

\* a delimiter met while scanning: it closes the one on top of the stack or
\* is pushed (lines 77-84 and 86-91)
PushOrPop(stack, symbol) ==
    IF stack # <<>> /\ stack[Len(stack)] = symbol
    THEN SubSeq(stack, 1, Len(stack) - 1)
    ELSE Append(stack, symbol)

\* lines 75-95: the scan from position i
RECURSIVE ScanMarkdown(_, _, _, _)
ScanMarkdown(text, i, stack, result) ==
    IF ~(i < Len(text)) THEN result \o CloseUnmatched(stack)
    ELSE IF Slice(text, i, Min(i + 3, Len(text))) = Fence
    THEN ScanMarkdown(text, i + 3, PushOrPop(stack, FenceSymbol), result \o Fence)
    ELSE IF text[i + 1] \in single_char_symbols
    THEN ScanMarkdown(text, i + 1, PushOrPop(stack, text[i + 1]), Append(result, text[i + 1]))
    ELSE ScanMarkdown(text, i + 1, stack, Append(result, text[i + 1]))

\* ensure_valid_markdown(text)
ensure_valid_markdown(text) == ScanMarkdown(text, 0, <<>>, <<>>)

\* the sequences over an alphabet of length at most n
SeqsUpTo(alphabet, n) == UNION {[1..k -> alphabet] : k \in 0..n}

\* texts to split: letters, space, newline, tab
SplitTexts == SeqsUpTo({"a", "b", " ", "\n", "\t"}, MaxTextLen)

\* chunks to balance: the delimiters and a letter
MarkdownTexts == SeqsUpTo({"a", "*", Backtick, "~"}, MaxChunkLen)

\* a call split_long_message(text_arg, max_length)
SplitLongMessage(max_length) ==
    /\ applied = "none"
    /\ max_length_arg' = max_length
    /\ split_chunks' = split_long_message(text_arg, max_length)
    /\ applied' = "split"
    /\ UNCHANGED <<text_arg, chunk_to_send, loop, notText>>

\* a call ensure_valid_markdown(text_arg)
EnsureValidMarkdown ==
    /\ applied = "none"
    /\ chunk_to_send' = ensure_valid_markdown(text_arg)
    /\ applied' = "markdown"
    /\ UNCHANGED <<text_arg, max_length_arg, split_chunks, loop, notText>>

\* the text is any text of the two families; everything else is at rest
InitText ==
    /\ text_arg \in SplitTexts \cup MarkdownTexts
    /\ max_length_arg = 1
    /\ split_chunks = <<>>
    /\ chunk_to_send = <<>>
    /\ applied = "none"
    /\ loop = NoLoop
    /\ runs = NoRuns
    /\ delivery = NoDelivery
    /\ handler = NoHandler
    /\ since = [k \in Keys |-> ALBUM_PROCESSING_TIMEOUT]
    /\ FEATURE_ENABLE_IMAGE_UNDERSTANDING = TRUE
    /\ MAX_IMAGES_PER_ALBUM = 1
    /\ media_group_cache = [k \in Keys |-> NoAlbum]
    /\ tasks = <<>>
    /\ arrivals = <<>>
    /\ today = 1
    /\ DAILY_CHAT_LIMIT_PER_USER = 0
    /\ dbAvailable = FALSE
    /\ user_preferences = [u \in Users |-> NoRow]
    /\ lastCheck = NoCheck
    /\ allowedToday = NoCalls
    /\ FEATURE_ENABLE_DAILY_CHAT_LIMIT = TRUE
    /\ FEATURE_ENABLE_DATABASE = TRUE
    /\ FEATURE_ENABLE_CONVERSATION_HISTORY = TRUE
    /\ FEATURE_ENABLE_GEMINI = TRUE
    /\ GEMINI_API_KEY = TRUE
    /\ FEATURE_ENABLE_AUDIO_UNDERSTANDING = TRUE
    /\ FEATURE_ENABLE_DOCUMENT_UNDERSTANDING = TRUE
    /\ translations = FullTable
    /\ conversation_history = <<>>
    /\ req = NoReq

NextText ==
    \/ \E max_length \in 1..MaxSplitLength : SplitLongMessage(max_length)
    \/ EnsureValidMarkdown

SpecText == InitText /\ [][NextText]_vars

-----------------------------------------------------------------------------
(* The loop of split_long_message, one iteration per step.  iterations     *)
(* counts the passes through the loop body (history).                      *)

\* lines 30-35: the call; an empty text returns at once
SplitBegin ==
    /\ applied = "none"
    /\ IF text_arg = <<>>
       THEN /\ applied' = "split"
            /\ split_chunks' = <<>>
       ELSE /\ applied' = "loop"
            /\ UNCHANGED split_chunks
    /\ loop' = NoLoop
    /\ UNCHANGED <<text_arg, max_length_arg, chunk_to_send, notText>>

\* (mutant) the loop goes on from where the window started
NextPosStay(text, current_pos, split_at) == current_pos

\* lines 60-63: current_pos = split_at, then the whitespace is skipped
NextPos(text, current_pos, split_at) == SkipSpace(text, split_at)

\* lines 37-63: one pass through the loop body; the pass that reaches the end
\* of the text appends the rest, breaks and returns (line 65)
SplitIteration ==
    /\ applied = "loop"
    /\ loop.current_pos < Len(text_arg)
    /\ LET current_pos == loop.current_pos
           end_pos == current_pos + max_length_arg
           split_at == SplitAt(text_arg, current_pos, end_pos)
       IN IF end_pos >= Len(text_arg)
          THEN /\ loop' = [loop EXCEPT
                              !.chunks = Append(@, LastChunk(text_arg, current_pos)),
                              !.iterations = @ + 1]
               /\ applied' = "split"
               /\ split_chunks' = SelectSeq(loop'.chunks, NonEmpty)
          ELSE /\ loop' = [current_pos |-> NextPos(text_arg, current_pos, split_at),
                           iterations |-> loop.iterations + 1,
                           chunks |-> Append(loop.chunks,
                                             Slice(text_arg, current_pos, split_at))]
               /\ UNCHANGED <<applied, split_chunks>>
    /\ UNCHANGED <<text_arg, max_length_arg, chunk_to_send, notText>>

\* lines 37 and 65: the loop condition fails and the chunks are returned
SplitReturn ==
    /\ applied = "loop"
    /\ ~(loop.current_pos < Len(text_arg))
    /\ applied' = "split"
    /\ split_chunks' = SelectSeq(loop.chunks, NonEmpty)
    /\ UNCHANGED <<text_arg, max_length_arg, chunk_to_send, loop, notText>>

\* the texts and limits given to the loop
LoopTexts == SeqsUpTo({"a", "b", " ", "\n", "\t"}, MaxLoopTextLen)

InitSplit ==
    /\ text_arg \in LoopTexts
    /\ max_length_arg \in 1..MaxLoopLength
    /\ split_chunks = <<>>
    /\ chunk_to_send = <<>>
    /\ applied = "none"
    /\ loop = NoLoop
    /\ runs = NoRuns
    /\ delivery = NoDelivery
    /\ handler = NoHandler
    /\ since = [k \in Keys |-> ALBUM_PROCESSING_TIMEOUT]
    /\ FEATURE_ENABLE_IMAGE_UNDERSTANDING = TRUE
    /\ MAX_IMAGES_PER_ALBUM = 1
    /\ media_group_cache = [k \in Keys |-> NoAlbum]
    /\ tasks = <<>>
    /\ arrivals = <<>>
    /\ today = 1
    /\ DAILY_CHAT_LIMIT_PER_USER = 0
    /\ dbAvailable = FALSE
    /\ user_preferences = [u \in Users |-> NoRow]
    /\ lastCheck = NoCheck
    /\ allowedToday = NoCalls
    /\ FEATURE_ENABLE_DAILY_CHAT_LIMIT = TRUE
    /\ FEATURE_ENABLE_DATABASE = TRUE
    /\ FEATURE_ENABLE_CONVERSATION_HISTORY = TRUE
    /\ FEATURE_ENABLE_GEMINI = TRUE
    /\ GEMINI_API_KEY = TRUE
    /\ FEATURE_ENABLE_AUDIO_UNDERSTANDING = TRUE
    /\ FEATURE_ENABLE_DOCUMENT_UNDERSTANDING = TRUE
    /\ translations = FullTable
    /\ conversation_history = <<>>
    /\ req = NoReq

NextSplit ==
    \/ SplitBegin
    \/ SplitIteration
    \/ SplitReturn

\* split_long_message is synchronous code: once called it runs on, so a step
\* of it that can be taken is taken
SpecSplit == InitSplit /\ [][NextSplit]_vars /\ WF_vars(NextSplit)

-----------------------------------------------------------------------------
(* Delivery: bot/handlers.py send_text_response_possibly_chunked.  Every    *)
(* await of a transport call or of the sleep is one step; the code between  *)
(* two of them belongs to the step of the earlier one.                      *)

\* core/config.py:51 has 4000; the model runs with 2, so that responses of up
\* to three times the limit stay small
TELEGRAM_MAX_MESSAGE_LENGTH == 2

\* what a transport send can come back with: accepted, rejected for its
\* formatting (TelegramBadRequest), or any other exception
SendResults == {"ok", "bad_request", "error"}

\* not text.strip(): nothing but whitespace, or nothing at all
Blank(text) == \A k \in 1..Len(text) : isspace(text[k])

\* lines 258-262: the first chunk from position i on that is not skipped, or
\* len(chunks) when every chunk from i on is blank after ensure_valid_markdown
RECURSIVE NextChunk(_, _)
NextChunk(chunks, i) ==
    IF ~(i < Len(chunks)) THEN Len(chunks)
    ELSE IF Blank(ensure_valid_markdown(chunks[i + 1])) THEN NextChunk(chunks, i + 1)
    ELSE i

\* the loop goes on with chunk i: it stops at the next send or it is over
Advance(d, i) ==
    LET n == NextChunk(d.chunks, i)
    IN [d EXCEPT !.i = n, !.pc = IF n < Len(d.chunks) THEN "send" ELSE "returned"]

\* (mutant) the loop goes on after a chunk that could not be sent
AbortNot(d) == Advance(d, d.i + 1)

\* lines 283 and 287: break
Abort(d) == [d EXCEPT !.pc = "returned"]

\* lines 265-268 and 275-278, and line 295: reply or answer
send_method(d) ==
    IF ~d.chunked THEN "reply"
    ELSE IF d.i = 0 /\ ~d.reply_to_bot THEN "reply"
    ELSE "answer"

\* line 257: chunk_original
chunk_original(d) == d.chunks[d.i + 1]

\* (mutant) the retry sends the rebalanced chunk again
FallbackTextBalanced(d) == ensure_valid_markdown(chunk_original(d))

\* lines 279 and 299: the text of the plain-text retry
FallbackText(d) == chunk_original(d)

\* one call of the transport, or of the sleep, as the log keeps it
Sent(d, op, method, parse_mode, text, key, result) ==
    [d EXCEPT !.log = Append(@, [op |-> op, i |-> d.i, method |-> method,
                                 parse_mode |-> parse_mode, text |-> text,
                                 key |-> key, result |-> result])]

\* the caller goes on when the delivery has returned or raised
Resume(d) ==
    IF d.pc = "returned" THEN [req EXCEPT !.pc = "done"]
    ELSE IF d.pc = "raised" THEN [req EXCEPT !.pc = "raised"]
    ELSE req

\* lines 253-262 and 289-290: the call, up to the first send.  A response
\* not longer than the limit is one piece and is never split
Begin(text_response, reply_to_bot) ==
    /\ req.pc = "delivering"
    /\ delivery.pc = "idle"
    /\ LET chunked == Len(text_response) > TELEGRAM_MAX_MESSAGE_LENGTH
           d0 == [NoDelivery EXCEPT
                     !.text_response = text_response,
                     !.reply_to_bot = reply_to_bot,
                     !.chunked = chunked,
                     !.chunks = IF chunked
                                THEN split_long_message(text_response,
                                                        TELEGRAM_MAX_MESSAGE_LENGTH)
                                ELSE <<text_response>>]
           d1 == IF chunked THEN Advance(d0, 0)
                 ELSE IF Blank(ensure_valid_markdown(text_response))
                 THEN [d0 EXCEPT !.pc = "empty_notice"]
                 ELSE [d0 EXCEPT !.pc = "send"]
       IN /\ delivery' = d1
          /\ req' = Resume(d1)
    /\ UNCHANGED <<user_preferences, lastCheck, notDelivery>>

\* lines 269-271 and 295: the formatted send of the chunk
SendChunk(result) ==
    /\ delivery.pc = "send"
    /\ LET d1 == Sent(delivery, "send", send_method(delivery), "MARKDOWN",
                      ensure_valid_markdown(chunk_original(delivery)), None, result)
           d2 == IF result = "ok"
                 THEN IF d1.i < Len(d1.chunks) - 1
                      THEN [d1 EXCEPT !.pc = "sleep"]
                      ELSE [d1 EXCEPT !.pc = "returned"]
                 ELSE IF result = "bad_request"
                 THEN [d1 EXCEPT !.pc = "fallback"]
                 ELSE [d1 EXCEPT !.pc = "notice"]
       IN /\ delivery' = d2
          /\ req' = Resume(d2)
    /\ UNCHANGED <<user_preferences, lastCheck, notDelivery>>

\* line 271: asyncio.sleep(0.5) is over
Sleep ==
    /\ delivery.pc = "sleep"
    /\ LET d1 == Advance(Sent(delivery, "sleep", None, None, <<>>, None, "ok"),
                         delivery.i + 1)
       IN /\ delivery' = d1
          /\ req' = Resume(d1)
    /\ UNCHANGED <<user_preferences, lastCheck, notDelivery>>

\* lines 274-283 and 298-302: the plain-text retry of the chunk
SendFallback(result) ==
    /\ delivery.pc = "fallback"
    /\ LET d1 == Sent(delivery, "fallback", send_method(delivery), None,
                      FallbackText(delivery), None, result)
           d2 == IF result = "ok" THEN Advance(d1, d1.i + 1)
                 ELSE [d1 EXCEPT !.pc = "notice"]
       IN /\ delivery' = d2
          /\ req' = Resume(d2)
    /\ UNCHANGED <<user_preferences, lastCheck, notDelivery>>

\* lines 282, 286, 302, 305: the delivery-error notice, and line 292: the
\* empty-response notice; a notice the transport refuses raises out of the
\* function
SendNotice(ok) ==
    /\ delivery.pc \in {"notice", "empty_notice"}
    /\ LET key == IF delivery.pc = "notice" THEN "gemini_error_sending_response"
                  ELSE "gemini_empty_response"
           d1 == Sent(delivery, "notice", IF delivery.chunked THEN "answer" ELSE "reply",
                      None, <<>>, key, IF ok THEN "ok" ELSE "error")
           d2 == IF ok THEN Abort(d1) ELSE [d1 EXCEPT !.pc = "raised"]
       IN /\ delivery' = d2
          /\ req' = Resume(d2)
    /\ UNCHANGED <<user_preferences, lastCheck, notDelivery>>

\* the responses delivered: letters, spaces and an emphasis delimiter
ResponseTexts == SeqsUpTo({"a", " ", "*"}, MaxResponseLen)

\* process_ai_interaction at line 441, with a provider answer
AtDelivery ==
    [NoReq EXCEPT !.pc = "delivering", !.prompt_text = "text",
                  !.replies = <<[kind |-> "processing",
                                 text |-> Text("text", "gemini_processing", NoArg),
                                 ok |-> TRUE]>>,
                  !.processing_msg = TRUE, !.provider_calls = 1,
                  !.contents_for_api = <<[role |-> "user",
                                          content |-> Text("parts", "text", "none")]>>,
                  !.raw = Text("content", "answer", NoArg),
                  !.delivery_entered = TRUE]

InitDelivery ==
    /\ req = AtDelivery
    /\ delivery = NoDelivery
    /\ handler = NoHandler
    /\ text_arg = <<>>
    /\ max_length_arg = 1
    /\ split_chunks = <<>>
    /\ chunk_to_send = <<>>
    /\ applied = "none"
    /\ loop = NoLoop
    /\ runs = NoRuns
    /\ since = [k \in Keys |-> ALBUM_PROCESSING_TIMEOUT]
    /\ FEATURE_ENABLE_IMAGE_UNDERSTANDING = TRUE
    /\ MAX_IMAGES_PER_ALBUM = 1
    /\ media_group_cache = [k \in Keys |-> NoAlbum]
    /\ tasks = <<>>
    /\ arrivals = <<>>
    /\ today = 1
    /\ DAILY_CHAT_LIMIT_PER_USER = 0
    /\ dbAvailable = FALSE
    /\ user_preferences = [u \in Users |-> NoRow]
    /\ lastCheck = NoCheck
    /\ allowedToday = NoCalls
    /\ FEATURE_ENABLE_DAILY_CHAT_LIMIT = FALSE
    /\ FEATURE_ENABLE_DATABASE = FALSE
    /\ FEATURE_ENABLE_CONVERSATION_HISTORY = FALSE
    /\ FEATURE_ENABLE_GEMINI = TRUE
    /\ GEMINI_API_KEY = TRUE
    /\ FEATURE_ENABLE_AUDIO_UNDERSTANDING = TRUE
    /\ FEATURE_ENABLE_DOCUMENT_UNDERSTANDING = TRUE
    /\ translations = FullTable
    /\ conversation_history = <<>>

NextDelivery ==
    \/ \E text_response \in ResponseTexts, reply_to_bot \in BOOLEAN :
          Begin(text_response, reply_to_bot)
    \/ \E result \in SendResults : SendChunk(result)
    \/ Sleep
    \/ \E result \in SendResults : SendFallback(result)
    \/ \E ok \in BOOLEAN : SendNotice(ok)

SpecDelivery == InitDelivery /\ [][NextDelivery]_vars

-----------------------------------------------------------------------------
(* Handlers: bot/handlers.py handle_private_text_message,                   *)
(* handle_document_message, handle_audio_message.  A handler checks the     *)
(* media of the update, sends at most one notice and calls                  *)
(* process_ai_interaction or returns.                                       *)

\* core/config.py:38-45 and 49, as far as the model tells MIME types apart
SUPPORTED_AUDIO_MIME_TYPES_GEMINI == {"audio/ogg"}
SUPPORTED_DOCUMENT_MIME_TYPES_BOT == {"application/pdf"}

\* an update: the handler that takes it, its text or caption, what it replies
\* to, and the media (attached or replied to) with the outcome of its download
Update(name, text, reply_to_message, mime, size_ok, download) ==
    [name |-> name, text |-> text, reply_to_message |-> reply_to_message,
     mime |-> mime, size_ok |-> size_ok, download |-> download]

Updates ==
    {Update("private_text", t, r, None, TRUE, "ok") :
        t \in {"text", "blank"}, r \in {"none", "bot_text"}}
    \cup {Update("private_text", "text", "photo", "image/jpeg", TRUE, d) :
        d \in {"ok", "raise"}}
    \cup {Update("private_text", "text", "audio", m, z, d) :
        m \in {"audio/ogg", "audio/x-other"}, z \in BOOLEAN, d \in {"ok", "raise"}}
    \cup {Update("private_text", "text", "document", m, z, d) :
        m \in {"application/pdf", "text/plain"}, z \in BOOLEAN, d \in {"ok", "raise"}}
    \cup {Update("document", t, "none", m, z, d) :
        t \in {None, "text"}, m \in {"application/pdf", "text/plain"},
        z \in BOOLEAN, d \in {"ok", "raise", "empty"}}
    \cup {Update("audio", t, "none", m, z, d) :
        t \in {None, "text"}, m \in {"audio/ogg", "audio/x-other"},
        z \in BOOLEAN, d \in {"ok", "raise", "empty"}}

\* what a handler decides: the notice it sends (or None), whether it then
\* calls process_ai_interaction, the check that rejected the media, and the
\* arguments of the call
Decision(notice, then, rejected, prompt_text, media, mime) ==
    [notice |-> notice, then |-> then, rejected |-> rejected,
     input |-> [prompt_text |-> prompt_text, media |-> media, mime |-> mime]]

\* (mutant) a rejected replied-to media ends the request
GoOnWithoutMediaNot(notice, rejected, prompt_text) ==
    Decision(notice, "return", rejected, prompt_text, "none", None)

\* lines 756, 762, 778-783, 789, 795-797, 805: the notice is sent and the
\* handler goes on to line 808 with no media
GoOnWithoutMedia(notice, rejected, prompt_text) ==
    Decision(notice, "call", rejected, prompt_text, "none", None)

\* lines 726-816: handle_private_text_message
handle_private_text_message(u) ==
    IF u.reply_to_message = "photo" /\ FEATURE_ENABLE_IMAGE_UNDERSTANDING
    THEN IF u.download = "ok"
         THEN Decision(None, "call", "none", u.text, "image", u.mime)
         ELSE GoOnWithoutMedia("error_downloading_image", "none", u.text)
    ELSE IF u.reply_to_message = "audio" /\ FEATURE_ENABLE_AUDIO_UNDERSTANDING
    THEN IF ~u.size_ok
         THEN GoOnWithoutMedia("audio_too_large", "size", u.text)
         ELSE IF u.mime \notin SUPPORTED_AUDIO_MIME_TYPES_GEMINI
         THEN GoOnWithoutMedia("audio_format_not_supported_gemini", "mime", u.text)
         ELSE IF u.download = "ok"
         THEN Decision(None, "call", "none", u.text, "audio", u.mime)
         ELSE GoOnWithoutMedia("error_downloading_audio", "none", u.text)
    ELSE IF u.reply_to_message = "document" /\ FEATURE_ENABLE_DOCUMENT_UNDERSTANDING
    THEN IF u.mime \notin SUPPORTED_DOCUMENT_MIME_TYPES_BOT
         THEN GoOnWithoutMedia("document_format_not_supported", "mime", u.text)
         ELSE IF ~u.size_ok
         THEN GoOnWithoutMedia("document_too_large", "size", u.text)
         ELSE IF u.download = "ok"
         THEN Decision(None, "call", "none", u.text, "doc", u.mime)
         ELSE GoOnWithoutMedia("error_downloading_document", "none", u.text)
    ELSE Decision(None, "call", "none", u.text, "none", None)

\* a notice after which the handler returns
Stop(notice, rejected) == Decision(notice, "return", rejected, None, "none", None)

\* lines 445-503: handle_document_message
handle_document_message(u) ==
    IF ~FEATURE_ENABLE_DOCUMENT_UNDERSTANDING
    THEN Stop("document_understanding_disabled", "none")
    ELSE IF u.mime \notin SUPPORTED_DOCUMENT_MIME_TYPES_BOT
    THEN Stop("document_format_not_supported", "mime")
    ELSE IF ~u.size_ok THEN Stop("document_too_large", "size")
    ELSE IF u.download = "raise" THEN Stop("error_downloading_document", "none")
    ELSE IF u.download = "empty" THEN Stop("error_processing_document_data", "none")
    ELSE Decision(None, "call", "none",
                  IF u.text = None THEN "default_document_prompt_summarize" ELSE u.text,
                  "doc", u.mime)

\* lines 506-587: handle_audio_message; the size is checked before the
\* download and the MIME type after it
handle_audio_message(u) ==
    IF ~FEATURE_ENABLE_AUDIO_UNDERSTANDING
    THEN Stop("audio_understanding_disabled", "none")
    ELSE IF ~u.size_ok THEN Stop("audio_too_large", "size")
    ELSE IF u.download = "raise" THEN Stop("error_downloading_audio", "none")
    ELSE IF u.download = "empty" THEN Stop("error_processing_audio_data", "none")
    ELSE IF u.mime \notin SUPPORTED_AUDIO_MIME_TYPES_GEMINI
    THEN Stop("audio_format_not_supported_gemini", "mime")
    ELSE Decision(None, "call", "none",
                  IF u.text = None THEN "default_audio_prompt_describe" ELSE u.text,
                  "audio", u.mime)

\* the router: the handler of the update, up to its notice or its call
Dispatch(u) ==
    CASE u.name = "private_text" -> handle_private_text_message(u)
      [] u.name = "document" -> handle_document_message(u)
      [] u.name = "audio" -> handle_audio_message(u)

\* an update arrives and its handler runs up to its first send or its call
Receive(u) ==
    /\ handler.pc = "idle"
    /\ LET dec == Dispatch(u)
       IN handler' = [handler EXCEPT
                         !.update = u,
                         !.reply_to_bot = (u.reply_to_message = "bot_text"),
                         !.rejected = dec.rejected,
                         !.pending = dec.notice,
                         !.then = dec.then,
                         !.input = dec.input,
                         !.pc = IF dec.notice # None THEN "notice"
                                ELSE IF dec.then = "call" THEN "call"
                                ELSE "returned"]
    /\ UNCHANGED <<albumVars, quotaVars, orchVars, textVars, delivery, runs>>

\* message.reply with the notice of the handler; none of these sends is
\* guarded, so a send the transport refuses raises out of the handler
HandlerNotice(ok) ==
    /\ handler.pc = "notice"
    /\ handler' = [handler EXCEPT
                      !.notices = Append(@, [key |-> handler.pending, ok |-> ok]),
                      !.pc = IF ~ok THEN "raised"
                             ELSE IF handler.then = "call" THEN "call"
                             ELSE "returned"]
    /\ UNCHANGED <<albumVars, quotaVars, orchVars, textVars, delivery, runs>>

\* lines 497, 581, 808: await process_ai_interaction(...)
CallProcessAiInteraction(rd) ==
    /\ handler.pc = "call"
    /\ Start(handler.input, rd)

\* the responses of the provider in the pipeline: short, short and blank,
\* longer than the limit, longer than the limit and blank
PipelineResponses ==
    {<<"a">>, <<" ">>, <<"a", "*", "a">>, <<" ", " ", " ">>}

\* line 441 for the request of the handler: the text is the provider's answer,
\* or a message of get_gemini_response that was not classified as an error
Deliver(text_response) ==
    /\ req.raw # Text("content", "answer", NoArg) => text_response = <<"a">>
    /\ Begin(text_response, handler.reply_to_bot)

\* one request at a time; the quota row has one chat of today and the limit
\* is 1, so that the quota rejects the request unless its select fails
InitPipeline ==
    /\ handler = NoHandler
    /\ delivery = NoDelivery
    /\ req = NoReq
    /\ FEATURE_ENABLE_DAILY_CHAT_LIMIT \in BOOLEAN
    /\ FEATURE_ENABLE_DATABASE = TRUE
    /\ dbAvailable = TRUE
    /\ FEATURE_ENABLE_CONVERSATION_HISTORY \in BOOLEAN
    /\ FEATURE_ENABLE_GEMINI \in BOOLEAN
    /\ GEMINI_API_KEY = TRUE
    /\ FEATURE_ENABLE_IMAGE_UNDERSTANDING \in BOOLEAN
    /\ FEATURE_ENABLE_AUDIO_UNDERSTANDING = FEATURE_ENABLE_IMAGE_UNDERSTANDING
    /\ FEATURE_ENABLE_DOCUMENT_UNDERSTANDING = FEATURE_ENABLE_IMAGE_UNDERSTANDING
    /\ translations = FullTable
    /\ conversation_history = <<>>
    /\ text_arg = <<>>
    /\ max_length_arg = 1
    /\ split_chunks = <<>>
    /\ chunk_to_send = <<>>
    /\ applied = "none"
    /\ loop = NoLoop
    /\ runs = NoRuns
    /\ today = 1
    /\ DAILY_CHAT_LIMIT_PER_USER = 1
    /\ user_preferences = [u \in Users |-> IF u = Requester THEN OrchRow ELSE NoRow]
    /\ lastCheck = NoCheck
    /\ allowedToday = NoCalls
    /\ since = [k \in Keys |-> ALBUM_PROCESSING_TIMEOUT]
    /\ MAX_IMAGES_PER_ALBUM = 1
    /\ media_group_cache = [k \in Keys |-> NoAlbum]
    /\ tasks = <<>>
    /\ arrivals = <<>>

NextPipeline ==
    \/ \E u \in Updates : Receive(u)
    \/ \E ok \in BOOLEAN : HandlerNotice(ok)
    \/ \E rd \in {"ok", "raise"} : CallProcessAiInteraction(rd)
    \/ \E ok \in BOOLEAN : ReplyNotice(ok)
    \/ \E ok \in BOOLEAN, rd \in {"ok", "raise"}, uok \in BOOLEAN, mok \in BOOLEAN :
          SendProcessing(ok, rd, uok, mok)
    \/ \E outcome \in ProviderOutcomes, uok \in BOOLEAN, mok \in BOOLEAN :
          ProviderReturns(outcome, uok, mok)
    \/ \E ok \in BOOLEAN, uok \in BOOLEAN, mok \in BOOLEAN : DeleteProcessing(ok, uok, mok)
    \/ \E ok \in BOOLEAN : ReplyError(ok)
    \/ \E text_response \in PipelineResponses : Deliver(text_response)
    \/ \E result \in SendResults : SendChunk(result)
    \/ Sleep
    \/ \E result \in SendResults : SendFallback(result)
    \/ \E ok \in BOOLEAN : SendNotice(ok)

SpecPipeline == InitPipeline /\ [][NextPipeline]_vars

-----------------------------------------------------------------------------
(* The /start command next to a request: bot/handlers.py handle_start.     *)

\* (mutant) /start leaves the quota alone
StartQuotaNever(limit_on, database_on) == FALSE

\* line 106: if FEATURE_ENABLE_DAILY_CHAT_LIMIT and FEATURE_ENABLE_DATABASE
StartQuota(limit_on, database_on) == limit_on /\ database_on

\* lines 103-106: handle_start up to its first send; the result of the quota
\* call is not looked at
HandleStart(rd) ==
    /\ handler.pc = "idle"
    /\ LET res == CheckAndUpdateChatLimit(user_preferences[Requester],
                                          DAILY_CHAT_LIMIT_PER_USER, rd, "ok")
       IN IF StartQuota(FEATURE_ENABLE_DAILY_CHAT_LIMIT, FEATURE_ENABLE_DATABASE)
          THEN /\ user_preferences' = [user_preferences EXCEPT ![Requester] = res.row]
               /\ lastCheck' = [user |-> Requester,
                                before |-> user_preferences[Requester],
                                day |-> today, rd |-> rd, wr |-> "ok",
                                can_chat |-> res.can_chat,
                                remaining |-> res.remaining,
                                failed_open |-> res.failed_open]
          ELSE UNCHANGED <<user_preferences, lastCheck>>
    /\ handler' = [handler EXCEPT !.update.name = "start", !.pc = "welcome"]
    /\ UNCHANGED <<albumVars, today, DAILY_CHAT_LIMIT_PER_USER, dbAvailable, allowedToday,
                   orchVars, textVars, delivery, runs>>

\* lines 107-108: message.answer of the welcome, then of the language
\* suggestion; a send the transport refuses raises out of the handler
StartAnswer(ok) ==
    /\ handler.pc \in {"welcome", "suggestion"}
    /\ handler' = [handler EXCEPT
                      !.notices = Append(@, [key |-> IF handler.pc = "welcome"
                                                     THEN "welcome_message"
                                                     ELSE "language_suggestion",
                                             ok |-> ok]),
                      !.pc = IF ~ok THEN "raised"
                             ELSE IF handler.pc = "welcome" THEN "suggestion"
                             ELSE "returned"]
    /\ UNCHANGED <<albumVars, quotaVars, orchVars, textVars, delivery, runs>>

\* the rows of the requester when the process starts: none, one chat made
\* today, two chats made yesterday
StartRows == {NoRow, OrchRow, Row(FALSE, 2, "date", 0)}

\* the quota is on and the database answers; the history is off
InitStart ==
    /\ handler = NoHandler
    /\ delivery = NoDelivery
    /\ req = NoReq
    /\ FEATURE_ENABLE_DAILY_CHAT_LIMIT = TRUE
    /\ FEATURE_ENABLE_DATABASE = TRUE
    /\ dbAvailable = TRUE
    /\ FEATURE_ENABLE_CONVERSATION_HISTORY = FALSE
    /\ FEATURE_ENABLE_GEMINI \in BOOLEAN
    /\ GEMINI_API_KEY = TRUE
    /\ FEATURE_ENABLE_IMAGE_UNDERSTANDING = TRUE
    /\ FEATURE_ENABLE_AUDIO_UNDERSTANDING = TRUE
    /\ FEATURE_ENABLE_DOCUMENT_UNDERSTANDING = TRUE
    /\ translations = FullTable
    /\ conversation_history = <<>>
    /\ text_arg = <<>>
    /\ max_length_arg = 1
    /\ split_chunks = <<>>
    /\ chunk_to_send = <<>>
    /\ applied = "none"
    /\ loop = NoLoop
    /\ runs = NoRuns
    /\ today = 1
    /\ DAILY_CHAT_LIMIT_PER_USER \in 0..MaxLimit
    /\ \E r \in StartRows :
          user_preferences = [u \in Users |-> IF u = Requester THEN r ELSE NoRow]
    /\ lastCheck = NoCheck
    /\ allowedToday = NoCalls
    /\ since = [k \in Keys |-> ALBUM_PROCESSING_TIMEOUT]
    /\ MAX_IMAGES_PER_ALBUM = 1
    /\ media_group_cache = [k \in Keys |-> NoAlbum]
    /\ tasks = <<>>
    /\ arrivals = <<>>

\* one /start and one request of the same user, in any interleaving
NextStart ==
    \/ \E rd \in {"ok", "raise"} : HandleStart(rd)
    \/ \E ok \in BOOLEAN : StartAnswer(ok)
    \/ \E in \in Inputs, rd \in {"ok", "raise"} : Start(in, rd)
    \/ \E ok \in BOOLEAN : ReplyNotice(ok)
    \/ \E ok \in BOOLEAN, rd \in {"ok", "raise"}, uok \in BOOLEAN, mok \in BOOLEAN :
          SendProcessing(ok, rd, uok, mok)
    \/ \E outcome \in ProviderOutcomes, uok \in BOOLEAN, mok \in BOOLEAN :
          ProviderReturns(outcome, uok, mok)
    \/ \E ok \in BOOLEAN, uok \in BOOLEAN, mok \in BOOLEAN : DeleteProcessing(ok, uok, mok)
    \/ \E ok \in BOOLEAN : ReplyError(ok)
    \/ \E ok \in BOOLEAN : DeliveryReturns(ok)

SpecStart == InitStart /\ [][NextStart]_vars

-----------------------------------------------------------------------------
(* Two requests of one user side by side: two process_ai_interaction tasks  *)
(* on the one event loop.  A task runs from one await that really waits to   *)
(* the next; another task can run only while it waits.                       *)

\* (mutant) every await gives the event loop to the other tasks
SuspendsAlways(call) == TRUE

\* the awaited calls that wait: the transport and the provider.  The
\* functions of core/database.py are declared async but await nothing (the
\* client is synchronous), so awaiting them does not suspend the task.
Suspends(call) ==
    call \in {"message.reply", "generate_content_async", "processing_msg.delete",
              "send_text_response_possibly_chunked"}

\* the text prompt of request i
RunInput(i) ==
    [prompt_text |-> IF i = 1 THEN "first" ELSE "second", media |-> "none", mime |-> None]

\* the answer of the provider to request i
RunAnswer(i) == Text("content", "answer", RunInput(i).prompt_text)

\* the outcomes of the provider call of a request
RunOutcomes == {"text", "error"}

\* lines 318-361 for request i: from the call to the first send
RunStart(i) ==
    /\ runs[i].pc = "idle"
    /\ LET r0 == [runs[i] EXCEPT !.prompt_text = RunInput(i).prompt_text]
       IN runs' = [runs EXCEPT ![i] =
             IF ~FEATURE_ENABLE_GEMINI THEN [r0 EXCEPT !.pc = "reply_disabled"]
             ELSE IF ~has_text_input(r0) THEN [r0 EXCEPT !.pc = "reply_nocontent"]
             ELSE [r0 EXCEPT !.pc = "reply_processing"]]
    /\ UNCHANGED <<albumVars, quotaVars, orchVars, textVars, deliveryVars>>

\* lines 363-383 for request i: the processing notice was sent (or refused),
\* the history is read and the provider is called
RunSendProcessing(i, ok) ==
    /\ runs[i].pc = "reply_processing"
    /\ LET r1 == [Reply(runs[i], "processing", processing_text_str(runs[i]), ok)
                    EXCEPT !.processing_msg = ok]
           read == FEATURE_ENABLE_CONVERSATION_HISTORY /\ FEATURE_ENABLE_DATABASE
           r2 == [r1 EXCEPT !.history_reads = IF read THEN 1 ELSE 0,
                            !.history_read_ok = read /\ dbAvailable,
                            !.history = IF read THEN get_conversation_history("ok")
                                        ELSE <<>>]
       IN runs' = [runs EXCEPT ![i] =
             [r2 EXCEPT !.provider_calls = 1,
                        !.contents_for_api =
                            ContentsForApi(r2, actual_prompt_text_for_gemini(r2)),
                        !.pc = "provider"]]
    /\ UNCHANGED <<albumVars, quotaVars, orchVars, textVars, deliveryVars>>

\* lines 424-439 for request r on a table, from the insert of the user turn:
\* the user turn is inserted; when that await does not suspend, the model turn
\* is inserted in the same step
SaveTurns(r, table, uok, mok) ==
    LET p == prompt_saved_to_history(r)
        t1 == IF p # NoText THEN add_message_to_history(table, "user", p, uok) ELSE table
        w1 == IF p # NoText THEN <<[role |-> "user", inserted |-> dbAvailable /\ uok]>>
              ELSE <<>>
    IN IF Suspends("add_message_to_history")
       THEN [req |-> [r EXCEPT !.history_writes = w1, !.pc = "model_turn"], table |-> t1]
       ELSE [req |-> [r EXCEPT
                        !.history_writes =
                            w1 \o <<[role |-> "model", inserted |-> dbAvailable /\ mok]>>,
                        !.delivery_entered = TRUE,
                        !.pc = "delivering"],
             table |-> add_message_to_history(t1, "model", r.raw, mok)]

\* lines 388-439 for request r: the answer is classified; an error answer is
\* replied, any other answer is saved
RunClassify(r, uok, mok) ==
    LET err == r.raw \in translated_error_test_values
        r1 == [r EXCEPT !.is_error_response = err]
    IN IF StopOnError(err)
       THEN [req |-> [r1 EXCEPT !.pc = "reply_error"], table |-> conversation_history]
       ELSE IF FEATURE_ENABLE_CONVERSATION_HISTORY /\ FEATURE_ENABLE_DATABASE
       THEN SaveTurns(r1, conversation_history, uok, mok)
       ELSE [req |-> [r1 EXCEPT !.delivery_entered = TRUE, !.pc = "delivering"],
             table |-> conversation_history]

\* line 132 for request i: the provider call comes back; the processing
\* notice, if there is one, is deleted first
RunProviderReturns(i, outcome, uok, mok) ==
    /\ runs[i].pc = "provider"
    /\ LET r1 == [runs[i] EXCEPT !.raw = IF outcome = "text" THEN RunAnswer(i)
                                         ELSE GeminiResult(outcome)]
           after == IF r1.processing_msg
                    THEN [req |-> [r1 EXCEPT !.pc = "delete"], table |-> conversation_history]
                    ELSE RunClassify(r1, uok, mok)
       IN /\ runs' = [runs EXCEPT ![i] = after.req]
          /\ conversation_history' = after.table
    /\ UNCHANGED <<albumVars, quotaVars, orchConfig, req, textVars, deliveryVars>>

\* request i goes on after processing_msg.delete() (lines 386-388), or after
\* the insert of its user turn when that insert suspended (line 438)
RunResume(i, uok, mok) ==
    /\ runs[i].pc \in {"delete", "model_turn"}
    /\ LET r == runs[i]
           after ==
              IF r.pc = "delete" THEN RunClassify(r, uok, mok)
              ELSE [req |-> [r EXCEPT
                               !.history_writes =
                                   Append(@, [role |-> "model",
                                              inserted |-> dbAvailable /\ mok]),
                               !.delivery_entered = TRUE,
                               !.pc = "delivering"],
                    table |-> add_message_to_history(conversation_history, "model",
                                                     r.raw, mok)]
       IN /\ runs' = [runs EXCEPT ![i] = after.req]
          /\ conversation_history' = after.table
    /\ UNCHANGED <<albumVars, quotaVars, orchConfig, req, textVars, deliveryVars>>

\* lines 420-422 and 441 for request i: the error answer is replied, or the
\* delivery returns; the function returns or the send raises
RunEnds(i, ok) ==
    /\ runs[i].pc \in {"reply_error", "delivering"}
    /\ runs' = [runs EXCEPT ![i] =
          IF runs[i].pc = "reply_error"
          THEN [Reply(runs[i], "error", runs[i].raw, ok)
                  EXCEPT !.pc = IF ok THEN "done" ELSE "raised"]
          ELSE [runs[i] EXCEPT !.pc = IF ok THEN "done" ELSE "raised"]]
    /\ UNCHANGED <<albumVars, quotaVars, orchVars, textVars, deliveryVars>>

\* the history is on, the quota is off; the table is empty or holds one
\* earlier exchange of the user
InitRuns ==
    /\ runs = NoRuns
    /\ handler = NoHandler
    /\ delivery = NoDelivery
    /\ req = NoReq
    /\ FEATURE_ENABLE_DAILY_CHAT_LIMIT = FALSE
    /\ FEATURE_ENABLE_DATABASE = TRUE
    /\ dbAvailable = TRUE
    /\ FEATURE_ENABLE_CONVERSATION_HISTORY = TRUE
    /\ FEATURE_ENABLE_GEMINI = TRUE
    /\ GEMINI_API_KEY = TRUE
    /\ FEATURE_ENABLE_IMAGE_UNDERSTANDING = TRUE
    /\ FEATURE_ENABLE_AUDIO_UNDERSTANDING = TRUE
    /\ FEATURE_ENABLE_DOCUMENT_UNDERSTANDING = TRUE
    /\ translations = FullTable
    /\ conversation_history \in {<<>>, StoredHistory}
    /\ text_arg = <<>>
    /\ max_length_arg = 1
    /\ split_chunks = <<>>
    /\ chunk_to_send = <<>>
    /\ applied = "none"
    /\ loop = NoLoop
    /\ today = 1
    /\ DAILY_CHAT_LIMIT_PER_USER = 0
    /\ user_preferences = [u \in Users |-> NoRow]
    /\ lastCheck = NoCheck
    /\ allowedToday = NoCalls
    /\ since = [k \in Keys |-> ALBUM_PROCESSING_TIMEOUT]
    /\ MAX_IMAGES_PER_ALBUM = 1
    /\ media_group_cache = [k \in Keys |-> NoAlbum]
    /\ tasks = <<>>
    /\ arrivals = <<>>

NextRuns ==
    \/ \E i \in Runs : RunStart(i)
    \/ \E i \in Runs, ok \in BOOLEAN : RunSendProcessing(i, ok)
    \/ \E i \in Runs, outcome \in RunOutcomes, uok \in BOOLEAN, mok \in BOOLEAN :
          RunProviderReturns(i, outcome, uok, mok)
    \/ \E i \in Runs, uok \in BOOLEAN, mok \in BOOLEAN : RunResume(i, uok, mok)
    \/ \E i \in Runs, ok \in BOOLEAN : RunEnds(i, ok)

SpecRuns == InitRuns /\ [][NextRuns]_vars

-----------------------------------------------------------------------------
(* Album aggregator: properties *)

\* the handled messages of group k, as indices of arrivals, in arrival order
IdsOf(k) == SelectIdx([i \in 1..Len(arrivals) |-> arrivals[i].key = k], 1, Len(arrivals))

\* the tasks of group k that went past the sleep and took a batch
FlushesOf(k) == {t \in TaskIds : tasks[t].key = k /\ tasks[t].popped}

\* every message of group k is a photo and came less than the debounce
\* duration after the one before it
TightPhotoGroup(k) ==
    LET ids == IdsOf(k)
    IN /\ ids # <<>>
       /\ \A j \in 1..Len(ids) : arrivals[ids[j]].photo
       /\ \A j \in 2..Len(ids) : arrivals[ids[j]].tight

\* C1: N photos of one group, each less than the debounce duration after the
\* one before, give at most one flush, and exactly one once no timer of the
\* group is pending; the flush holds all N items in arrival order and is the
\* expiry of the timer armed by the last item, after a full debounce duration
\* of sleep (not the timer armed by the first item).
C1_OneFlushAfterLast ==
    \A k \in Keys :
        TightPhotoGroup(k) =>
            LET ids == IdsOf(k)
                last == ids[Len(ids)]
            IN /\ Cardinality(FlushesOf(k)) <= 1
               /\ (\A t \in TaskIds : tasks[t].key = k => ~Sleeping(t))
                     => Cardinality(FlushesOf(k)) = 1
               /\ \A t \in FlushesOf(k) :
                     /\ tasks[t].batch = ids
                     /\ t = last
                     /\ tasks[t].slept = ALBUM_PROCESSING_TIMEOUT
               /\ \A t \in TaskIds :
                     (tasks[t].key = k /\ Sleeping(t)) => t = last

\* three photos of one group within the window were flushed as one batch
C1_Witness ==
    \E k \in Keys :
        /\ TightPhotoGroup(k)
        /\ Len(IdsOf(k)) = 3
        /\ \E t \in FlushesOf(k) : Len(tasks[t].batch) = 3

C3_FreshBatchAfterExpiry ==
    \A t \in TaskIds :
        (tasks[t].pc \notin {"sleep", "cancelled"}) =>
            LET k == tasks[t].key
            IN /\ ~(media_group_cache[k].present /\ media_group_cache[k].timer = t)
               /\ \A m \in Range(tasks[t].batch) \cup Range(tasks[t].photos)
                           \cup Range(tasks[t].bytes) : m <= t
               /\ media_group_cache[k].present =>
                     /\ media_group_cache[k].initial_message_for_reply > t
                     /\ \A m \in Range(media_group_cache[k].messages) :
                           m > t /\ m \notin Range(tasks[t].batch)

\* while a flush of a group is still running, a later photo of the same group
\* sits in a new registry entry
C3_Witness ==
    \E t \in TaskIds :
        /\ Flushing(t)
        /\ tasks[t].batch # <<>>
        /\ media_group_cache[tasks[t].key].present
        /\ media_group_cache[tasks[t].key].messages # <<>>

\* C4 (as claimed): no two flushes of one group are past the debounce sleep
\* and unfinished at the same time.
C4_NoConcurrentFlush ==
    \A t1, t2 \in TaskIds :
        (t1 # t2 /\ tasks[t1].key = tasks[t2].key) => ~(Flushing(t1) /\ Flushing(t2))

RECURSIVE IsSubSeq(_, _)
\* s is t with some elements left out
IsSubSeq(s, t) ==
    IF s = <<>> THEN TRUE
    ELSE IF t = <<>> THEN FALSE
    ELSE IF Head(s) = Head(t) THEN IsSubSeq(Tail(s), Tail(t))
    ELSE IsSubSeq(s, Tail(t))

\* C5: a batch of more than MAX_IMAGES_PER_ALBUM photos gets exactly one
\* truncation notice, sent before any download; exactly the first
\* MAX_IMAGES_PER_ALBUM photos in arrival order are downloaded, and what
\* reaches process_ai_interaction is taken from them in order (all of them when
\* every download succeeds).  A batch within the limit gets no notice.
C5_Truncation ==
    \A t \in TaskIds :
        tasks[t].popped =>
            IF tasks[t].count > MAX_IMAGES_PER_ALBUM
            THEN /\ tasks[t].pc = "notify" =>
                       /\ tasks[t].notices = 0
                       /\ tasks[t].okv = <<>> /\ tasks[t].bytes = <<>> /\ ~tasks[t].called
                 /\ tasks[t].pc # "notify" => tasks[t].notices = 1
                 /\ tasks[t].pc \notin {"notify", "done"} =>
                       /\ tasks[t].photos = SubSeq(tasks[t].batch, 1, MAX_IMAGES_PER_ALBUM)
                       /\ Len(tasks[t].okv) \in {0, MAX_IMAGES_PER_ALBUM}
                       /\ IsSubSeq(tasks[t].bytes, tasks[t].photos)
                       /\ (tasks[t].okv # <<>> /\ \A i \in 1..Len(tasks[t].okv) : tasks[t].okv[i])
                             => tasks[t].bytes = SubSeq(tasks[t].batch, 1, MAX_IMAGES_PER_ALBUM)
            ELSE /\ tasks[t].notices = 0
                 /\ tasks[t].pc # "done" => tasks[t].photos = tasks[t].batch

\* a batch of MAX_IMAGES_PER_ALBUM + 2 photos went to process_ai_interaction
\* with MAX_IMAGES_PER_ALBUM images after one notice
C5_Witness ==
    \E t \in TaskIds :
        /\ tasks[t].count = MAX_IMAGES_PER_ALBUM + 2
        /\ tasks[t].pc = "orch"
        /\ tasks[t].called
        /\ Len(tasks[t].bytes) = MAX_IMAGES_PER_ALBUM
        /\ tasks[t].notices = 1

\* the downloads of task t have returned
Downloaded(t) ==
    /\ tasks[t].popped
    /\ tasks[t].batch # <<>>
    /\ tasks[t].pc \in {"err_notice", "orch", "done"}

\* C6: after the downloads, the images handed to process_ai_interaction are
\* exactly the photos whose download succeeded, in order, with as many MIME
\* types; when none succeeded process_ai_interaction is not called and the
\* could-not-retrieve notice is sent once, unless the truncation notice of
\* this batch was sent.
C6_DownloadFailures ==
    \A t \in TaskIds :
        Downloaded(t) =>
            LET photos == tasks[t].photos
                okv == tasks[t].okv
                good == SelectIdx(okv, 1, Len(okv))
            IN /\ tasks[t].pc # "done" =>
                     /\ Len(okv) = Len(photos)
                     /\ tasks[t].bytes = [i \in 1..Len(good) |-> photos[good[i]]]
                     /\ Len(tasks[t].mimes) = Len(tasks[t].bytes)
                     /\ tasks[t].called <=> (good # <<>>)
               /\ tasks[t].called => (tasks[t].errors = 0 /\ tasks[t].pc # "err_notice")
               /\ ~tasks[t].called =>
                     /\ tasks[t].pc = "err_notice" =>
                           (tasks[t].errors = 0 /\ ~tasks[t].notified_limit)
                     /\ tasks[t].pc = "done" =>
                           tasks[t].errors = (IF tasks[t].notified_limit THEN 0 ELSE 1)

\* one batch went on with a part of its photos, and another batch lost them
\* all and got the could-not-retrieve notice
C6_Witness ==
    /\ \E t \in TaskIds :
          /\ tasks[t].pc = "orch"
          /\ tasks[t].called
          /\ \E i \in 1..Len(tasks[t].okv) : ~tasks[t].okv[i]
    /\ \E t \in TaskIds :
          /\ Downloaded(t) /\ ~tasks[t].called
          /\ tasks[t].errors = 1

-----------------------------------------------------------------------------
(* Daily quota: properties *)

\* the last call was made by a user with a stored row, on a working database,
\* and its select succeeded
CheckedStoredRow ==
    /\ lastCheck.user # "none"
    /\ dbAvailable
    /\ lastCheck.rd = "ok"
    /\ lastCheck.before.present

\* the row of the last caller right after the call (only a call changes a row)
RowAfterCheck == user_preferences[lastCheck.user]

\* C8: with the select and the update succeeding, a call for a row whose
\* count equals the limit and whose reset date is today returns
\* (false, 0); a call for a row whose reset date is before today returns
\* allowed and leaves count 1 and reset date today, whatever the old count; a
\* call for a same-day count c below the limit returns (true, limit - (c + 1))
\* and stores c + 1.
C8_CheckAndUpdate ==
    CheckedStoredRow =>
        LET b == lastCheck.before
            limit == DAILY_CHAT_LIMIT_PER_USER
            sameDay == b.date_kind = "date" /\ b.date = lastCheck.day /\ ~b.count_null
        IN /\ (sameDay /\ b.daily_chat_count = limit) =>
                 /\ ~lastCheck.can_chat
                 /\ lastCheck.remaining = 0
           /\ (b.date_kind = "date" /\ b.date < lastCheck.day /\ lastCheck.wr = "ok") =>
                 /\ lastCheck.can_chat
                 /\ RowAfterCheck.daily_chat_count = 1
                 /\ ~RowAfterCheck.count_null
                 /\ RowAfterCheck.date_kind = "date"
                 /\ RowAfterCheck.date = lastCheck.day
           /\ (sameDay /\ b.daily_chat_count < limit /\ lastCheck.wr = "ok") =>
                 /\ lastCheck.can_chat
                 /\ lastCheck.remaining = limit - (b.daily_chat_count + 1)
                 /\ RowAfterCheck.daily_chat_count = b.daily_chat_count + 1
                 /\ RowAfterCheck.date = b.date

\* a user used up the limit of 2 on day 1 and was rejected; the call on day 2
\* found the count at the limit, was allowed and left the count at 1
C8_Witness ==
    /\ CheckedStoredRow
    /\ lastCheck.wr = "ok"
    /\ DAILY_CHAT_LIMIT_PER_USER = 2
    /\ lastCheck.day = 2
    /\ lastCheck.before = Row(FALSE, 2, "date", 1)
    /\ lastCheck.can_chat
    /\ RowAfterCheck = Row(FALSE, 1, "date", 2)

\* C9 (as claimed): for every limit >= 0, with the persistence operations of
\* the day succeeding, the calls of a user allowed on one day are at most the
\* limit, an allowed call never leaves the stored count above the limit, and
\* the remaining it returns is never negative.
C9_DailyCap ==
    \A u \in Users :
        (dbAvailable /\ allowedToday[u].clean) =>
            /\ allowedToday[u].allowed <= DAILY_CHAT_LIMIT_PER_USER
            /\ (lastCheck.user = u /\ lastCheck.day = today) =>
                  /\ lastCheck.remaining >= 0
                  /\ lastCheck.can_chat =>
                        user_preferences[u].daily_chat_count <= DAILY_CHAT_LIMIT_PER_USER

-----------------------------------------------------------------------------
(* Orchestrator: properties *)

\* the replies of the request of a given kind
RepliesOfKind(kind) == SelectSeq(req.replies, LAMBDA m : m.kind = kind)

\* C7: when the quota call rejects the request, process_ai_interaction sends
\* the localized limit-reached notice and stops: the notice is its only
\* message, and the request makes no processing notice, no history read, no
\* provider call and no history write.
C7_RejectedStops ==
    (req.can_chat = "rejected") =>
        /\ req.pc \in {"reply_limit", "done", "raised"}
        /\ Len(req.replies) = (IF req.pc = "reply_limit" THEN 0 ELSE 1)
        /\ \A i \in DOMAIN req.replies :
              /\ req.replies[i].kind = "limit"
              /\ req.replies[i].text =
                    get_translation("chat_limit_reached", FALSE, "limit_count")
        /\ ~req.processing_msg
        /\ req.history_reads = 0
        /\ req.provider_calls = 0
        /\ req.raw = NoText
        /\ req.history_writes = <<>>
        /\ conversation_history = req.table0
        /\ ~req.delivery_entered

\* a request of a user at the limit, with content the provider would take
\* and history enabled, has been answered with the limit notice and has ended
C7_Witness ==
    /\ req.can_chat = "rejected"
    /\ req.pc = "done"
    /\ Len(req.replies) = 1
    /\ req.prompt_text = "text"
    /\ FEATURE_ENABLE_GEMINI
    /\ FEATURE_ENABLE_CONVERSATION_HISTORY
    /\ dbAvailable

\* C10: when the raw provider result is classified as an error answer,
\* process_ai_interaction replies with exactly that text once and stops: no
\* user turn and no model turn is written and the chunked delivery is not
\* entered.
C10_ErrorAnswerStops ==
    req.is_error_response =>
        /\ req.pc \in {"reply_error", "done", "raised"}
        /\ Len(RepliesOfKind("error")) = (IF req.pc = "reply_error" THEN 0 ELSE 1)
        /\ \A i \in DOMAIN req.replies :
              /\ req.replies[i].kind \in {"processing", "error"}
              /\ req.replies[i].kind = "error" =>
                    /\ req.replies[i].text = req.raw
                    /\ i = Len(req.replies)
        /\ req.history_writes = <<>>
        /\ conversation_history = req.table0
        /\ ~req.delivery_entered

\* the provider was called and came back with parts without text; with
\* history enabled and the database up, the empty-response text has been
\* replied once and the run has ended
C10_Witness ==
    /\ req.is_error_response
    /\ req.pc = "done"
    /\ req.provider_calls = 1
    /\ req.raw = get_translation("gemini_empty_response", FALSE, NoArg)
    /\ Len(RepliesOfKind("error")) = 1
    /\ FEATURE_ENABLE_CONVERSATION_HISTORY
    /\ dbAvailable

\* the raw answer of the request has been classified
Classified == req.raw # NoText /\ req.pc \in {"reply_error", "delivering", "done", "raised"}

\* the values get_gemini_response puts into the placeholder of an error text
\* (the reasons, the model id, the error detail, the MIME type), and the
\* value the classifier puts there
PlaceholderValues == {"...", "reasons", "model_id", "error_message", "mime_type"}

\* the error templates rendered in the active language, placeholders
\* substituted
RenderedErrorTemplates ==
    {get_translation(k, TRUE, a) : k \in possible_error_keys_with_vars, a \in PlaceholderValues}
    \cup {get_translation(k, TRUE, NoArg) : k \in possible_error_keys_no_vars}

\* C11 (as claimed): a raw response is marked as an error answer exactly when
\* it equals one of the error templates rendered in the active language with
\* its placeholder substituted; in particular the rendered provider-blocked
\* text is an error answer.
C11_ClassifierExact ==
    Classified => (req.is_error_response <=> req.raw \in RenderedErrorTemplates)

\* C12 (as claimed): every error message get_gemini_response returns in place
\* of an answer is replied as a single message, is never saved as a model turn
\* and never goes through the chunked delivery.
C12_ErrorsRecovered ==
    (Classified /\ req.raw.form # "content") =>
        /\ req.is_error_response
        /\ ~req.delivery_entered
        /\ req.history_writes = <<>>
        /\ conversation_history = req.table0

\* history is enabled: lines 369 and 424 test both settings
HistoryEnabled == FEATURE_ENABLE_CONVERSATION_HISTORY /\ FEATURE_ENABLE_DATABASE

\* C13: with history enabled and the result classified as an answer, the
\* request makes exactly two inserts, the user turn and then the model turn,
\* and when both inserts succeed the table has grown by exactly these two
\* rows in that order; with history disabled nothing is read or written.
C13_HistoryTurns ==
    /\ (HistoryEnabled /\ Classified /\ ~req.is_error_response) =>
          /\ Len(req.history_writes) = 2
          /\ req.history_writes[1].role = "user"
          /\ req.history_writes[2].role = "model"
          /\ (req.history_writes[1].inserted /\ req.history_writes[2].inserted) =>
                conversation_history = req.table0 \o
                    <<[user_id |-> Requester, role |-> "user",
                       content |-> prompt_saved_to_history(req)],
                      [user_id |-> Requester, role |-> "model", content |-> req.raw]>>
    /\ ~HistoryEnabled =>
          /\ req.history_reads = 0
          /\ req.history = <<>>
          /\ req.history_writes = <<>>
          /\ req.pc # "idle" => conversation_history = req.table0

\* an image without caption was answered: the table ends with the turn made
\* up for the image and the answer of the model
C13_Witness ==
    /\ HistoryEnabled
    /\ req.pc = "done"
    /\ req.delivery_entered
    /\ req.prompt_text = None
    /\ req.media = "image"
    /\ Len(conversation_history) = Len(req.table0) + 2
    /\ conversation_history[Len(conversation_history) - 1].content =
          Text("prompt", "default_image_prompt", " [n image(s) processed]")
    /\ conversation_history[Len(conversation_history)].content = Text("content", "answer", NoArg)

\* C14: with history enabled and the read succeeding, what the provider is
\* given is the last min(N, stored) turns of the requester, oldest first,
\* followed by the new user turn; no turn of another user is in it.
C14_HistoryWindow ==
    (req.provider_calls = 1 /\ HistoryEnabled /\ req.history_read_ok) =>
        LET own == SelectSeq(req.table0, OfUser)
            n == Min(GEMINI_CONVERSATION_HISTORY_MAX_MESSAGES, Len(own))
            c == req.contents_for_api
        IN /\ Len(c) = n + 1
           /\ \A i \in 1..n :
                 /\ c[i].role = own[Len(own) - n + i].role
                 /\ c[i].content = own[Len(own) - n + i].content
           /\ c[n + 1].role = "user"
           /\ c[n + 1].content.form = "parts"
           /\ \A i \in 1..Len(c), j \in 1..Len(req.table0) :
                 req.table0[j].user_id # Requester => c[i].content # req.table0[j].content

\* the requester has three stored turns, with turns of another user between
\* them: the provider got the last two and the new turn
C14_Witness ==
    /\ req.provider_calls = 1
    /\ HistoryEnabled
    /\ req.history_read_ok
    /\ Len(SelectSeq(req.table0, OfUser)) = 3
    /\ Len(req.table0) = 5
    /\ Len(req.contents_for_api) = 3
    /\ req.contents_for_api[1].content = Text("earlier", "2", NoArg)
    /\ req.contents_for_api[2].content = Text("earlier", "3", NoArg)

\* the request that was started has no non-blank prompt text and no media of
\* a kind whose feature is enabled
NothingToSend ==
    /\ req.pc # "idle"
    /\ req.prompt_text \in {None, "blank"}
    /\ \/ req.media = "none"
       \/ req.media = "image" /\ ~FEATURE_ENABLE_IMAGE_UNDERSTANDING
       \/ req.media = "audio" /\ ~FEATURE_ENABLE_AUDIO_UNDERSTANDING
       \/ req.media = "doc" /\ ~FEATURE_ENABLE_DOCUMENT_UNDERSTANDING

\* C15: a request without non-blank prompt text and without usable image,
\* audio or document sends no processing notice, makes no provider call and
\* writes no history turn; once past the quota check and the AI-feature check
\* its one message is the nothing-to-send notice, after which it stops.
C15_NothingToSend ==
    NothingToSend =>
        /\ req.pc \in {"reply_limit", "reply_disabled", "reply_nocontent", "done", "raised"}
        /\ RepliesOfKind("processing") = <<>>
        /\ ~req.processing_msg
        /\ req.provider_calls = 0
        /\ req.raw = NoText
        /\ req.history_writes = <<>>
        /\ conversation_history = req.table0
        /\ ~req.delivery_entered
        /\ (req.can_chat # "rejected" /\ FEATURE_ENABLE_GEMINI) =>
              /\ req.pc \in {"reply_nocontent", "done", "raised"}
              /\ Len(req.replies) = (IF req.pc = "reply_nocontent" THEN 0 ELSE 1)
              /\ \A i \in DOMAIN req.replies :
                    /\ req.replies[i].kind = "nocontent"
                    /\ req.replies[i].text =
                          get_translation("gemini_no_content_to_send", FALSE, NoArg)

\* a photo with a blank caption while image understanding is off, quota
\* allowed: the notice has been sent and the run has ended
C15_Witness ==
    /\ NothingToSend
    /\ req.media = "image"
    /\ req.prompt_text = "blank"
    /\ req.can_chat = "allowed"
    /\ FEATURE_ENABLE_GEMINI
    /\ req.pc = "done"
    /\ Len(RepliesOfKind("nocontent")) = 1

\* C16 (as claimed): whatever send, provider call or deletion fails,
\* process_ai_interaction returns normally and never raises to its caller.
C16_NeverRaises == req.pc # "raised"

-----------------------------------------------------------------------------
(* Text utilities: properties *)

Whitespace == {" ", "\n", "\t"}

\* the number of positions of a text that hold the character c
Count(chars, c) == Cardinality({i \in 1..Len(chars) : chars[i] = c})

\* the position after the whitespace that starts at position pos (0-based)
RECURSIVE AfterWhitespace(_, _)
AfterWhitespace(chars, pos) ==
    IF pos < Len(chars) /\ chars[pos + 1] \in Whitespace
    THEN AfterWhitespace(chars, pos + 1)
    ELSE pos

\* the pieces, from the k-th on, are found in chars from position pos on, one
\* after the other, with nothing but a run of whitespace dropped after each
RECURSIVE Rejoins(_, _, _, _)
Rejoins(chars, pieces, k, pos) ==
    IF k > Len(pieces) THEN pos = Len(chars)
    ELSE /\ pos + Len(pieces[k]) <= Len(chars)
         /\ SubSeq(chars, pos + 1, pos + Len(pieces[k])) = pieces[k]
         /\ Rejoins(chars, pieces, k + 1, AfterWhitespace(chars, pos + Len(pieces[k])))

\* C17: for 1 <= L < length(T) every element of split_long_message(T, L) has
\* length at most L and none is empty.
C17_ChunkLengths ==
    (applied = "split" /\ max_length_arg < Len(text_arg)) =>
        \A k \in 1..Len(split_chunks) :
            /\ Len(split_chunks[k]) >= 1
            /\ Len(split_chunks[k]) <= max_length_arg

\* a text of five letters without whitespace was cut by hard cuts into pieces
\* of two, two and one
C17_Witness ==
    /\ applied = "split"
    /\ Len(text_arg) = 5
    /\ \A i \in 1..Len(text_arg) : text_arg[i] \notin Whitespace
    /\ max_length_arg = 2
    /\ Len(split_chunks) = 3
    /\ Len(split_chunks[3]) = 1

\* C18: for L < length(T) the chunks of split_long_message(T, L), in order,
\* are T with only runs of whitespace removed, each removed run lying right
\* after a cut: no other character is lost, doubled or moved.
C18_Rejoin ==
    (applied = "split" /\ max_length_arg < Len(text_arg)) =>
        Rejoins(text_arg, split_chunks, 1, 0)

\* a text was cut after a newline and the whitespace behind the cut was
\* dropped
C18_Witness ==
    /\ applied = "split"
    /\ max_length_arg < Len(text_arg)
    /\ Len(split_chunks) = 2
    /\ split_chunks[1] = <<"a", "\n">>
    /\ Len(split_chunks[1]) + Len(split_chunks[2]) < Len(text_arg)
    /\ split_chunks[2] = <<"b">>

\* C19: split_long_message(T, L) with 0 < length(T) <= L is the one chunk T,
\* leading and trailing whitespace included, and for the empty T it is empty.
C19_FitsInOne ==
    (applied = "split" /\ Len(text_arg) <= max_length_arg) =>
        split_chunks = (IF text_arg = <<>> THEN <<>> ELSE <<text_arg>>)

\* a text as long as the limit, with whitespace at both ends, came back whole
C19_Witness ==
    /\ applied = "split"
    /\ Len(text_arg) = max_length_arg
    /\ Len(text_arg) >= 3
    /\ text_arg[1] = " "
    /\ text_arg[Len(text_arg)] = "\n"
    /\ split_chunks = <<text_arg>>

\* C20: when one of the delimiters *, backtick, ~ occurs an odd number of
\* times in a chunk, the output of ensure_valid_markdown holds it an even
\* number of times, also with delimiters interleaved and with fences.
C20_EvenDelimiters ==
    applied = "markdown" =>
        \A d \in single_char_symbols :
            Count(text_arg, d) % 2 = 1 => Count(chunk_to_send, d) % 2 = 0

\* an open bold, then a fence, then an open strikethrough: each delimiter
\* occurs an odd number of times, and all were closed
C20_Witness ==
    /\ applied = "markdown"
    /\ text_arg = <<"*", Backtick, Backtick, Backtick, "~", "a">>
    /\ chunk_to_send = text_arg \o <<"~", Backtick, Backtick, Backtick, "*">>

\* C21: the output of ensure_valid_markdown is self-balanced: a second scan
\* leaves nothing open, so that applying the function to its own output
\* returns the output unchanged.
C21_Idempotent ==
    applied = "markdown" => ensure_valid_markdown(chunk_to_send) = chunk_to_send

-----------------------------------------------------------------------------
(* Delivery: properties *)

\* the positions of the log that are sends of a chunk, formatted or plain
ChunkSends ==
    {k \in 1..Len(delivery.log) : delivery.log[k].op \in {"send", "fallback"}}

\* the positions of the log where the transport took a chunk
Deliveries == {k \in ChunkSends : delivery.log[k].result = "ok"}

\* the chunks (0-based, as in the loop) that reached the user
Delivered == {delivery.log[k].i : k \in Deliveries}

\* the chunks that hold more than whitespace
NonBlankChunks ==
    {i \in 0..(Len(delivery.chunks) - 1) :
        \E k \in 1..Len(delivery.chunks[i + 1]) :
            delivery.chunks[i + 1][k] \notin Whitespace}

\* C22: a formatted send rejected for its formatting is followed by exactly
\* one retry of the same chunk as plain text: the original chunk, no parse
\* mode; after a retry the transport took, the loop goes on with a later chunk
\* or is over; no chunk is sent more than twice.
C22_PlainRetryOnce ==
    LET log == delivery.log
    IN /\ \A k \in 1..Len(log) :
            (log[k].op = "send" /\ log[k].result = "bad_request") =>
                IF k = Len(log) THEN delivery.pc = "fallback"
                ELSE /\ log[k + 1].op = "fallback"
                     /\ log[k + 1].i = log[k].i
                     /\ log[k + 1].method = log[k].method
                     /\ log[k + 1].parse_mode = None
                     /\ log[k + 1].text = delivery.chunks[log[k].i + 1]
       /\ \A k \in 1..Len(log) :
            log[k].op = "fallback" =>
                /\ k > 1 /\ log[k - 1].op = "send" /\ log[k - 1].result = "bad_request"
                /\ log[k].result = "ok" =>
                      IF k = Len(log)
                      THEN \/ delivery.pc = "returned"
                           \/ delivery.pc = "send" /\ delivery.i > log[k].i
                      ELSE log[k + 1].op = "send" /\ log[k + 1].i > log[k].i
       /\ \A i \in 0..(Len(delivery.chunks) - 1) :
            /\ Cardinality({k \in ChunkSends : log[k].i = i}) <= 2
            /\ Cardinality({k \in ChunkSends : log[k].i = i /\ log[k].op = "fallback"}) <= 1

\* the first chunk was closed by ensure_valid_markdown and rejected, its
\* original text went out as plain text, and the second chunk followed
C22_Witness ==
    /\ delivery.chunked
    /\ Len(delivery.log) >= 3
    /\ delivery.log[1].op = "send" /\ delivery.log[1].result = "bad_request"
    /\ delivery.log[1].text # delivery.chunks[1]
    /\ delivery.log[2].op = "fallback" /\ delivery.log[2].result = "ok"
    /\ delivery.log[2].text = delivery.chunks[1]
    /\ delivery.log[3].op = "send" /\ delivery.log[3].i = 1

\* what C23 says of the order and of the abort: the chunks are sent in split
\* order, a chunk that failed totally is followed by one delivery-error
\* notice, and nothing is sent after that notice
InOrderAndAborted ==
    LET log == delivery.log
    IN /\ \A k \in ChunkSends, l \in ChunkSends : k < l => log[k].i <= log[l].i
       /\ \A k \in ChunkSends :
            (log[k].result = "error" \/ (log[k].op = "fallback" /\ log[k].result # "ok")) =>
                IF k = Len(log) THEN delivery.pc = "notice"
                ELSE /\ Len(log) = k + 1
                     /\ log[k + 1].op = "notice"
                     /\ log[k + 1].key = "gemini_error_sending_response"
       /\ \A k \in 1..Len(log) :
            log[k].op = "notice" => /\ k = Len(log)
                                    /\ delivery.pc \in {"returned", "raised"}

\* C23 (as stated): the chunks are sent in split order, a total failure gives
\* one delivery-error notice and ends the sending, and the chunks delivered
\* are a prefix of the split sequence.
C23_PrefixOfSplit ==
    /\ InOrderAndAborted
    /\ \A i \in Delivered : \A j \in 0..(i - 1) : j \in Delivered

\* C23 (amended): as above, and the chunks delivered are a prefix of the
\* chunks of the split sequence that hold more than whitespace; a chunk of
\* whitespace only is skipped and the sending goes on after it.
C23_PrefixOfNonBlank ==
    /\ InOrderAndAborted
    /\ Delivered \subseteq NonBlankChunks
    /\ \A i \in Delivered : \A j \in NonBlankChunks : j < i => j \in Delivered

\* of three chunks the first was delivered, the second failed with another
\* error than a formatting rejection, the notice was sent and the third
\* chunk was never sent
C23_Witness ==
    /\ delivery.pc = "returned"
    /\ Len(delivery.chunks) = 3
    /\ NonBlankChunks = {0, 1, 2}
    /\ Delivered = {0}
    /\ Len(delivery.log) = 4
    /\ delivery.log[3].op = "send" /\ delivery.log[3].i = 1 /\ delivery.log[3].result = "error"
    /\ delivery.log[4].op = "notice" /\ delivery.log[4].result = "ok"

\* C24: before every send of a chunk after the first one sent, the loop has
\* waited the fixed delay, whichever way the earlier chunk was delivered, and
\* no delay follows the last chunk.
C24_DelayBetweenSends ==
    LET log == delivery.log
    IN /\ \A k \in 2..Len(log) : log[k].op = "send" => log[k - 1].op = "sleep"
       /\ delivery.pc = "returned" => (log # <<>> => log[Len(log)].op # "sleep")

\* C25: the first message of the answer is a reply to the triggering message
\* exactly when that message is not a reply to a message of the bot, and every
\* later message of the answer is a plain follow-up.
C25_ReplyOnlyFirst ==
    \A k \in Deliveries :
        delivery.log[k].method =
            (IF (\A l \in Deliveries : k <= l) /\ ~delivery.reply_to_bot
             THEN "reply" ELSE "answer")

\* C26: the text of every message sent for a chunk is at most
\* TELEGRAM_MAX_MESSAGE_LENGTH long.
C26_WithinCeiling ==
    \A k \in ChunkSends : Len(delivery.log[k].text) <= TELEGRAM_MAX_MESSAGE_LENGTH

\* a response was delivered, every send accepted
DeliveredAllAccepted ==
    /\ delivery.pc = "returned"
    /\ \A k \in 1..Len(delivery.log) : delivery.log[k].result = "ok"

\* longer than twice the limit and at most three times the limit
TwoToThreeLimits ==
    /\ Len(delivery.text_response) > 2 * TELEGRAM_MAX_MESSAGE_LENGTH
    /\ Len(delivery.text_response) <= 3 * TELEGRAM_MAX_MESSAGE_LENGTH

\* C28 (as stated): a response longer than twice the limit and at most three
\* times the limit is delivered as exactly 3 chunks, wherever its newlines
\* and spaces are.
C28_ThreeChunks ==
    (DeliveredAllAccepted /\ TwoToThreeLimits) => Cardinality(Deliveries) = 3

\* C28 (amended): such a response is delivered as exactly 3 chunks when it
\* holds no whitespace; a cut at whitespace before the limit, the whitespace
\* dropped after a cut and a skipped blank chunk change the number.
C28_ThreeChunksNoWhitespace ==
    (/\ DeliveredAllAccepted
     /\ TwoToThreeLimits
     /\ \A k \in 1..Len(delivery.text_response) :
            delivery.text_response[k] \notin Whitespace)
        => Cardinality(Deliveries) = 3

\* a response of five characters without whitespace went out as chunks of
\* two, two and one
C28_Witness ==
    /\ DeliveredAllAccepted
    /\ Len(delivery.text_response) = 5
    /\ \A k \in 1..5 : delivery.text_response[k] \notin Whitespace
    /\ Cardinality(Deliveries) = 3
    /\ Len(delivery.chunks[3]) = 1

-----------------------------------------------------------------------------
(* Pipeline: properties *)

\* a text message in a private chat, not blank, that replies to no media,
\* with the AI feature on and history and quota off
PlainPrivateText ==
    /\ handler.update.name = "private_text"
    /\ handler.update.text = "text"
    /\ handler.update.reply_to_message \in {"none", "bot_text"}
    /\ FEATURE_ENABLE_GEMINI
    /\ ~FEATURE_ENABLE_CONVERSATION_HISTORY
    /\ ~FEATURE_ENABLE_DAILY_CHAT_LIMIT

\* every send of the request was accepted by the transport
AllSendsAccepted ==
    /\ \A k \in 1..Len(handler.notices) : handler.notices[k].ok
    /\ \A k \in 1..Len(req.replies) : req.replies[k].ok
    /\ \A k \in 1..Len(delivery.log) : delivery.log[k].result = "ok"

C29_AlwaysFeedback ==
    (req.pc = "done" /\ AllSendsAccepted) =>
        \/ \E k \in 1..Len(req.replies) : req.replies[k].kind # "processing"
        \/ \E k \in 1..Len(delivery.log) : delivery.log[k].op # "sleep"

\* C30: when the media of a request has an unsupported MIME type or is over
\* the size ceiling, no provider call is made for the request.
C30_RejectedMediaAborts ==
    handler.rejected # "none" => req.provider_calls = 0

\* the group k got items and none of them was a photo
VideosOnly(k) ==
    /\ IdsOf(k) # <<>>
    /\ \A j \in 1..Len(IdsOf(k)) : ~arrivals[IdsOf(k)[j]].photo

\* C37: a media group of which no item is a photo still has a registry entry
\* and a sleeping timer until the timer expires; the expiry removes the entry
\* and the task ends at once, with no call of process_ai_interaction (hence no
\* quota consumption and no provider call), no notice and no error message.
C37_VideosOnlyGroup ==
    /\ \A k \in Keys :
          VideosOnly(k) =>
              \/ /\ media_group_cache[k].present
                 /\ media_group_cache[k].messages = <<>>
                 /\ media_group_cache[k].timer \in TaskIds
                 /\ Sleeping(media_group_cache[k].timer)
                 /\ tasks[media_group_cache[k].timer].key = k
              \/ /\ ~media_group_cache[k].present
                 /\ \E t \in TaskIds : tasks[t].key = k /\ tasks[t].popped
    /\ \A t \in TaskIds :
          (tasks[t].popped /\ tasks[t].batch = <<>>) =>
              /\ tasks[t].pc = "done"
              /\ ~tasks[t].called
              /\ tasks[t].notices = 0
              /\ tasks[t].errors = 0
              /\ ~tasks[t].notified_limit
              /\ tasks[t].bytes = <<>>

\* the timer of a group of two videos expired and removed the entry
C37_Witness ==
    \E k \in Keys :
        /\ VideosOnly(k)
        /\ Len(IdsOf(k)) = 2
        /\ ~media_group_cache[k].present
        /\ \E t \in TaskIds :
              tasks[t].key = k /\ tasks[t].popped /\ tasks[t].batch = <<>>

\* this step is a call of check_and_update_chat_limit for user u
IsCheckLimitCall(u) == allowedToday'[u].calls = allowedToday[u].calls + 1

\* C36: a call of check_and_update_chat_limit that returns can_chat = False
\* leaves the whole table as it was: the stored count and the reset date of
\* the user are the same after the call as before, so rejected calls never
\* raise the count.
C36_RejectedChangesNothing ==
    [][\A u \in Users :
          (IsCheckLimitCall(u) /\ ~lastCheck'.can_chat) =>
              /\ lastCheck'.user = u
              /\ lastCheck'.before = user_preferences[u]
              /\ user_preferences'[u] = user_preferences[u]
              /\ user_preferences' = user_preferences]_vars

\* three calls of one user on one day were rejected and the count is still at
\* the limit of 2
C36_Witness ==
    /\ lastCheck.user = "u1"
    /\ ~lastCheck.can_chat
    /\ lastCheck.day = today
    /\ DAILY_CHAT_LIMIT_PER_USER = 2
    /\ allowedToday["u1"].calls = 3
    /\ allowedToday["u1"].allowed = 0
    /\ user_preferences["u1"] = Row(FALSE, 2, "date", today)

\* the last call got as far as its upsert or update: the select answered and
\* the row was absent, or was to be reset, or had a count below the limit
WriteAttempted ==
    LET b == lastCheck.before
    IN /\ lastCheck.rd = "ok"
       /\ \/ ~b.present
          \/ b.date_kind = "bad"
          \/ b.date_kind = "date" /\ b.date < lastCheck.day
          \/ /\ b.date_kind = "date"
             /\ b.date >= lastCheck.day
             /\ ~b.count_null
             /\ b.daily_chat_count < DAILY_CHAT_LIMIT_PER_USER

\* the persistence failed in the last call: the select raised, the upsert or
\* update raised, or the upsert of a new row answered with an error
PersistenceFailed ==
    \/ lastCheck.rd = "raise"
    \/ WriteAttempted /\ lastCheck.wr = "raise"
    \/ WriteAttempted /\ ~lastCheck.before.present /\ lastCheck.wr = "error"

\* C35: when the select or the write raises inside check_and_update_chat_limit,
\* or the upsert of a new user's row answers with an error, the call returns
\* (True, daily_limit) whatever the stored count is, and the stored row is as
\* it was before the call.
C35_FailsOpen ==
    (lastCheck.user # "none" /\ dbAvailable /\ PersistenceFailed) =>
        /\ lastCheck.can_chat
        /\ lastCheck.remaining = DAILY_CHAT_LIMIT_PER_USER
        /\ lastCheck.failed_open
        /\ lastCheck.day = today => user_preferences[lastCheck.user] = lastCheck.before

\* the select raised for a user whose stored count of the day is above the
\* limit, and the call was allowed
C35_Witness ==
    /\ lastCheck.user = "u1"
    /\ dbAvailable
    /\ lastCheck.rd = "raise"
    /\ lastCheck.before.present
    /\ lastCheck.before.date_kind = "date"
    /\ lastCheck.before.date = lastCheck.day
    /\ lastCheck.before.daily_chat_count > DAILY_CHAT_LIMIT_PER_USER
    /\ lastCheck.can_chat

\* the positions p after the window start at which the window [start, end)
\* holds the character c
PositionsOf(text, c, start, end) ==
    {p \in (start + 1)..(end - 1) : text[p + 1] = c}

\* the positions p after the window start at which a double newline lies
\* inside the window [start, end)
DoubleNewlinesIn(text, start, end) ==
    {p \in (start + 1)..(end - 2) : text[p + 1] = "\n" /\ text[p + 2] = "\n"}

\* the cut by preference: after the last double newline, else after the last
\* newline, else after the last space, else at the window end
PreferredCut(text, start, end) ==
    IF DoubleNewlinesIn(text, start, end) # {}
    THEN Max(DoubleNewlinesIn(text, start, end)) + 2
    ELSE IF PositionsOf(text, "\n", start, end) # {}
    THEN Max(PositionsOf(text, "\n", start, end)) + 1
    ELSE IF PositionsOf(text, " ", start, end) # {}
    THEN Max(PositionsOf(text, " ", start, end)) + 1
    ELSE end

\* C32: in every window [current_pos, current_pos + max_length) that ends
\* before the end of the text, the cut of split_long_message is directly after
\* the last double newline found after the window start, else directly after
\* the last newline found after the window start, else directly after the last
\* space found after the window start, else at the window end; a double
\* newline wins over a later newline or space.  The first chunk returned is
\* the text up to the cut of the first window.
C32_CutPreference ==
    (applied = "split") =>
        /\ \A current_pos \in 0..(Len(text_arg) - 1) :
              LET end_pos == current_pos + max_length_arg
              IN end_pos < Len(text_arg) =>
                    /\ SplitAt(text_arg, current_pos, end_pos)
                          = PreferredCut(text_arg, current_pos, end_pos)
                    /\ DoubleNewlinesIn(text_arg, current_pos, end_pos) # {} =>
                          /\ text_arg[SplitAt(text_arg, current_pos, end_pos) - 1] = "\n"
                          /\ text_arg[SplitAt(text_arg, current_pos, end_pos)] = "\n"
        /\ max_length_arg < Len(text_arg) =>
              split_chunks[1] = Slice(text_arg, 0, PreferredCut(text_arg, 0, max_length_arg))

\* the window of the first cut holds a double newline and a single newline
\* after it, and the first chunk ends with the double newline
C32_Witness ==
    /\ applied = "split"
    /\ text_arg = <<"a", "\n", "\n", "b", "\n", "a">>
    /\ max_length_arg = 5
    /\ split_chunks = <<<<"a", "\n", "\n">>, <<"b", "\n", "a">>>>

\* C33: split_long_message returns for every text and every max_length >= 1:
\* every pass through the loop body that goes on to another pass leaves
\* current_pos strictly larger, and the passes are at most len(text).
C33_Terminates ==
    /\ <>(applied = "split")
    /\ [](loop.iterations <= Len(text_arg))
    /\ [][(applied = "loop" /\ applied' = "loop") =>
             loop'.current_pos > loop.current_pos]_vars

\* a text of 4 letters was split with max_length 1 in 4 passes, and the loop
\* gave what the function gives
C33_Witness ==
    /\ applied = "split"
    /\ Len(text_arg) = 4
    /\ max_length_arg = 1
    /\ loop.iterations = 4
    /\ split_chunks = split_long_message(text_arg, max_length_arg)

\* the chats of the day that the row of the user counts
DailyCount(row) ==
    IF row.present /\ row.date_kind = "date" /\ row.date = today
    THEN row.daily_chat_count ELSE 0

\* this step is the entry of process_ai_interaction
RequestBegins == req.pc = "idle" /\ req'.pc # "idle"

\* this step is the entry of handle_start
StartBegins == handler.pc = "idle" /\ handler'.pc # "idle"

\* the quota call of this step found room and its persistence worked
Consumes == lastCheck'.can_chat /\ ~lastCheck'.failed_open

UserTurn(i) ==
    [user_id |-> Requester, role |-> "user",
     content |-> Text("prompt", RunInput(i).prompt_text, "")]
ModelTurn(i) == [user_id |-> Requester, role |-> "model", content |-> RunAnswer(i)]

\* the positions of a row in the table
RowsAt(row) == {k \in 1..Len(conversation_history) : conversation_history[k] = row}

\* C38: with the history on, the user turn and the model turn that one
\* request stores lie next to each other in the table, the model turn right
\* after the user turn, in every interleaving of two requests of one user.
C38_TurnsAdjacent ==
    \A i \in Runs :
        \A a \in RowsAt(UserTurn(i)), b \in RowsAt(ModelTurn(i)) : b = a + 1

\* the two requests ran side by side (each read the history before the other
\* wrote) and both stored their two turns
C38_Witness ==
    /\ conversation_history = <<UserTurn(2), ModelTurn(2), UserTurn(1), ModelTurn(1)>>
    /\ runs[1].history = <<>>
    /\ runs[2].history = <<>>
    /\ runs[1].pc = "done"
    /\ runs[2].pc = "done"

\* the photo m lies in the registry entry of some group
Pending(m) ==
    \E k \in Keys : media_group_cache[k].present /\ m \in Range(media_group_cache[k].messages)

\* the tasks that took the photo m out of the registry in their batch
TakenBy(m) == {t \in TaskIds : tasks[t].popped /\ m \in Range(tasks[t].batch)}

\* C31: under fair scheduling of the timer tasks, every registry entry is
\* removed in the end; every photo that lies in an entry is in the end in the
\* batch of a task that removed the entry, and never in the batches of two
\* tasks; an entry is removed only when the debounce duration has passed since
\* the last item of its group.
C31_EventuallyFlushed ==
    /\ \A k \in Keys :
          media_group_cache[k].present ~> ~media_group_cache[k].present
    /\ \A m \in 1..MaxItems : Pending(m) ~> (TakenBy(m) # {})
    /\ [](\A m \in 1..MaxItems : Cardinality(TakenBy(m)) <= 1)
    /\ [][\A k \in Keys :
             (media_group_cache[k].present /\ ~media_group_cache'[k].present) =>
                 since[k] = ALBUM_PROCESSING_TIMEOUT]_vars

\* the entry of a group of two photos was removed and the two photos are the
\* batch of one task, the one armed by the second photo
C31_Witness ==
    \E k \in Keys, t \in TaskIds :
        /\ ~media_group_cache[k].present
        /\ tasks[t].key = k
        /\ tasks[t].popped
        /\ tasks[t].batch = <<1, 2>>
        /\ TakenBy(1) = {t}
        /\ TakenBy(2) = {t}
        /\ tasks[1].pc = "cancelled"

=============================================================================
